---- MODULE Spec2Model ----
(***************************************************************************)
(* Model of the analog input scan engine of the USB-1608FS-Plus driver     *)
(* (package usb1608fsplus): the AnalogInput session, the commands it sends *)
(* through the DAQer transport, and the device the transport talks to.     *)
(*                                                                         *)
(* Go slices are 0-based, TLA+ sequences are 1-based: data[i] of the code  *)
(* is data[i + 1] here.  Every exported method is one action; the outcome  *)
(* of each transfer the method issues is an input of the action.           *)
(***************************************************************************)
EXTENDS Integers, Sequences, FiniteSets, TLC

(***************************************************************************)
(* Bounds of the model.                                                    *)
(***************************************************************************)
\* Read is called with an empty buffer, with a buffer of MaxPackets bulk
\* packets, and with lengths that are no multiple of the packet size.
MaxPackets == 1
\* Channels 0..MaxChan-1 are enabled and disabled while scanning.
MaxChan == 1
\* The first sample word in the device FIFO; the following words count up
\* (the debug mode of the device outputs an incrementing counter).
FirstWord == 258

(***************************************************************************)
(* Program constants.                                                      *)
(***************************************************************************)
maxFrequency == 500000
defaultFrequency == 10000
bytesPerWord == 2
numChannels == 8
maxBulkTransferPacketSize == 64

commandAnalogStartScan == 17
commandAnalogStopScan == 18
commandAnalogConfig == 20
commandAnalogClearBuffer == 21
commandGetStatus == 68

InternalPacerOff == 0
InternalPacerOn == 1
StallOnOverrun == 0
StallInhibited == 1
BlockTransfer == 0
ImmediateTransfer == 1
NoExternalTrigger == 0
LowLevelTrigger == 4
Range10V == 0

scanRunning == 2
scanOverrun == 4

(***************************************************************************)
(* Bytes and words.                                                        *)
(***************************************************************************)
RECURSIVE And8(_, _, _)
\* a & b on the low `bits` bits.
And8(a, b, bits) ==
    IF bits = 0 THEN 0
    ELSE ((a % 2) * (b % 2)) + 2 * And8(a \div 2, b \div 2, bits - 1)

RECURSIVE Or8(_, _, _)
\* a | b on the low `bits` bits.
Or8(a, b, bits) ==
    IF bits = 0 THEN 0
    ELSE (IF (a % 2) + (b % 2) > 0 THEN 1 ELSE 0)
         + 2 * Or8(a \div 2, b \div 2, bits - 1)

\* byte(x) << s, truncated to a byte as Go does for a byte operand.
Shl8(x, s) == (x * (2 ^ s)) % 256

\* binary.LittleEndian.Uint16
DecodeWord(data) == data[1] + 256 * data[2]

\* binary.LittleEndian.PutUint16
EncodeWord(i) == << i % 256, (i \div 256) % 256 >>

\* binary.LittleEndian.PutUint32 of uint32(v): the four low bytes of the
\* two's complement of v (\div rounds down, as an arithmetic shift does).
PutUint32(v) ==
    << v % 256, (v \div 256) % 256, (v \div 65536) % 256,
       (v \div 16777216) % 256 >>

\* make([]byte, n)
MakeBytes(n) == [i \in 1..n |-> 0]

(***************************************************************************)
(* Scan configuration: pacer period, channel mask, options, scan packet.   *)
(* A frequency is a whole number of Hz; a float64 f is the pair num/den.   *)
(***************************************************************************)
roundTruncates(num, den) ==
    IF num < 0 THEN 0 - ((0 - num) \div den) ELSE num \div den

\* round(f) for f = num/den, den > 0: 0 when |f| < 0.5, else
\* int(f + copysign(0.5, f)), int truncating toward zero.
round(num, den) ==
    LET absn == IF num < 0 THEN 0 - num ELSE num
    IN  IF 2 * absn < den THEN 0
        ELSE IF num < 0 THEN 0 - ((2 * absn + den) \div (2 * den))
        ELSE (2 * absn + den) \div (2 * den)

calculatePacerPeriodNoClamp(frequency) ==
    IF frequency > 0 THEN round(40000000 - frequency, frequency) ELSE 0

calculatePacerPeriod(frequency) ==
    LET f == IF frequency > maxFrequency THEN maxFrequency ELSE frequency
    IN  IF f > 0 THEN round(40000000 - f, f) ELSE 0

RECURSIVE divideBits(_, _, _, _)
\* The long division of 40e6 x 2^bits by num, four bits at a time, from
\* the quotient q and the remainder rem of 40e6 by num.  The quotient is
\* kept as a uint32 keeps it: its low 32 bits, in the halves hi and lo.
divideBits(num, rem, q, bits) ==
    IF bits = 0 THEN [hi |-> q.hi, lo |-> q.lo, rem |-> rem]
    ELSE LET k == IF bits < 4 THEN bits ELSE 4
             digit == (rem * 2 ^ k) \div num
             lo == q.lo * 2 ^ k + digit
         IN  divideBits(num, (rem * 2 ^ k) % num,
                        [hi |-> (q.hi * 2 ^ k + lo \div 65536) % 65536,
                         lo |-> lo % 65536],
                        bits - k)

\* The pacer-period bytes of the scan packet for a float64 frequency of
\* num / 2^exp Hz, num below 2^30.  calculatePacerPeriod clamps the
\* frequency to maxFrequency, divides 40e6 by it, subtracts 1 and rounds to
\* an int; packScanData converts that int to uint32 and stores it
\* little-endian.  After the clamp 40e6 / f is 80 or more, so round adds 0.5
\* and truncates: with 40e6 / f = Q + rem / num the int is Q when
\* rem / num >= 1/2 and Q - 1 otherwise.  The operator is exact; float64
\* agrees with it while 40e6 / f stays below 2^53.
pacerPeriodField(num, exp) ==
    LET clamp == /\ exp <= 30
                 /\ \/ num \div (2 ^ exp) > maxFrequency
                    \/ /\ num \div (2 ^ exp) = maxFrequency
                       /\ num % (2 ^ exp) # 0
        m == IF clamp THEN maxFrequency ELSE num
        e == IF clamp THEN 0 ELSE exp
        d == divideBits(m, 40000000 % m,
                        [hi |-> (40000000 \div m) \div 65536,
                         lo |-> (40000000 \div m) % 65536], e)
        up == 2 * d.rem >= m
        low == IF up THEN d.lo ELSE (d.lo + 65535) % 65536
        high == IF up \/ d.lo > 0 THEN d.hi ELSE (d.hi + 65535) % 65536
    IN  IF num <= 0 THEN << 0, 0, 0, 0 >>
        ELSE << low % 256, low \div 256, high % 256, high \div 256 >>

packScanDataOptionsFirst(numScans, frequency, channels, options) ==
    PutUint32(numScans) \o PutUint32(calculatePacerPeriod(frequency))
        \o << options, channels >>

packScanData(numScans, frequency, channels, options) ==
    LET binaryNumScans == PutUint32(numScans)
        binaryPacerPeriod == PutUint32(calculatePacerPeriod(frequency))
    IN  binaryNumScans \o binaryPacerPeriod \o << channels, options >>

RECURSIVE EnabledFrom(_, _)
\* The loop of Channels.Enabled from channel i on.
EnabledFrom(channels, i) ==
    IF i >= numChannels THEN 0
    ELSE Or8(IF channels[i].Enabled THEN Shl8(1, i) ELSE 0,
             EnabledFrom(channels, i + 1), 8)

RECURSIVE EnabledReversedFrom(_, _)
EnabledReversedFrom(channels, i) ==
    IF i >= numChannels THEN 0
    ELSE Or8(IF channels[i].Enabled THEN Shl8(1, numChannels - 1 - i) ELSE 0,
             EnabledReversedFrom(channels, i + 1), 8)

EnabledReversed(channels) == EnabledReversedFrom(channels, 0)

Enabled(channels) == EnabledFrom(channels, 0)

EnabledChannels(a) == Enabled(a.Channels)

RECURSIVE NumEnabledFrom(_, _)
\* The loop of NumEnabledChannels from channel i on.
NumEnabledFrom(channels, i) ==
    IF i >= numChannels THEN 0
    ELSE (IF channels[i].Enabled THEN 1 ELSE 0)
             + NumEnabledFrom(channels, i + 1)

NumEnabledChannels(a) == NumEnabledFrom(a.Channels, 0)

OptionsDebugOnBit6(a) ==
    LET pacer == IF a.OutputPacerOnSync THEN InternalPacerOn
                 ELSE InternalPacerOff
        debug == IF a.DebugMode THEN 1 ELSE 0
    IN  Or8(Or8(Or8(Or8(Shl8(a.TransferMode, 0), Shl8(pacer, 1), 8),
                    Shl8(a.Trigger, 2), 8), Shl8(debug, 6), 8),
            Shl8(a.Stall, 7), 8)

Options(a) ==
    LET transferMode == a.TransferMode
        pacer == IF a.OutputPacerOnSync THEN InternalPacerOn
                 ELSE InternalPacerOff
        trigger == a.Trigger
        debug == IF a.DebugMode THEN 1 ELSE 0
        stall == a.Stall
    IN  Or8(Or8(Or8(Or8(Shl8(transferMode, 0), Shl8(pacer, 1), 8),
                    Shl8(trigger, 2), 8), Shl8(debug, 5), 8),
            Shl8(stall, 7), 8)

(***************************************************************************)
(* The transport.  Every transfer a method issues is appended to the log   *)
(* of the call: control transfers that send a command, the status query,   *)
(* and bulk reads.  `ok` is FALSE when the transfer returned an error.     *)
(***************************************************************************)
CmdEntry(cmd, data, ok) ==
    [op |-> "cmd", cmd |-> cmd, data |-> data, req |-> Len(data),
     got |-> 0, ok |-> ok]

StatusEntry(status, ok) ==
    [op |-> "status", cmd |-> commandGetStatus, data |-> << status >>,
     req |-> bytesPerWord, got |-> 0, ok |-> ok]

BulkEntry(req, bytes, ok) ==
    [op |-> "bulk", cmd |-> 0, data |-> bytes, req |-> req,
     got |-> Len(bytes), ok |-> ok]

\* USB1608fsplus.SendCommandToDevice: nil data is sent as one zero byte;
\* the error of the control transfer is returned wrapped.
SendCommandToDevice(cmd, data, ok) ==
    [wire |-> << CmdEntry(cmd, IF data = << >> THEN << 0 >> ELSE data, ok) >>,
     err |-> IF ok THEN "nil" ELSE "transport"]

\* Byte j (0-based) of the sample stream the bulk endpoint delivers in a
\* call: little-endian words counting up from FirstWord.
StreamByte(j) ==
    LET word == (FirstWord + (j \div 2)) % 65536
    IN  IF j % 2 = 0 THEN word % 256 ELSE (word \div 256) % 256

\* USB1608fsplus.Read: a bulk transfer of up to `req` bytes that delivers
\* `got` bytes starting at stream offset `at`.
DAQRead(req, at, out) ==
    [e |-> BulkEntry(req, [i \in 1..out.got |-> StreamByte(at + i - 1)],
                     out.ok),
     n |-> out.got,
     err |-> IF out.ok THEN "nil" ELSE "transport"]

(***************************************************************************)
(* The device: whether a scan is running, whether the FIFO has overrun,    *)
(* whether the running scan is continuous (numScans = 0), and the range    *)
(* code it holds for each channel.                                         *)
(***************************************************************************)
\* The device as it is when the session is bound to it.
IdleDevice ==
    [running |-> FALSE, overrun |-> FALSE, continuous |-> FALSE,
     ranges |-> [i \in 1..numChannels |-> Range10V]]

\* The 16-bit status the device reports: bit 1 scan running, bit 2 overrun.
DevStatus(d) ==
    (IF d.running THEN scanRunning ELSE 0)
    + (IF d.overrun THEN scanOverrun ELSE 0)

\* The effect on the device of one transfer of the log.  A transfer that
\* returned an error did not reach the device.  An accepted stop ends the
\* scan, an accepted start begins one, reading the status clears the error
\* indicators, and a range packet received whole replaces the ranges.
DevStep(d, e) ==
    IF ~e.ok THEN d
    ELSE IF e.op = "cmd" /\ e.cmd = commandAnalogStopScan
    THEN [d EXCEPT !.running = FALSE]
    ELSE IF e.op = "cmd" /\ e.cmd = commandAnalogStartScan
    THEN [d EXCEPT !.running = TRUE, !.overrun = FALSE,
                   !.continuous = (SubSeq(e.data, 1, 4) = << 0, 0, 0, 0 >>)]
    ELSE IF e.op = "cmd" /\ e.cmd = commandAnalogConfig
    THEN IF e.got = Len(d.ranges) THEN [d EXCEPT !.ranges = e.data] ELSE d
    ELSE IF e.op = "status"
    THEN [d EXCEPT !.overrun = FALSE]
    ELSE d

RECURSIVE DevAfter(_, _)
\* The device after the transfers of a log, in order: after the first half
\* of the log, then after the second (the first half is evaluated before
\* the second is entered).
DevAfter(d, w) ==
    IF w = << >> THEN d
    ELSE IF Len(w) = 1 THEN DevStep(d, w[1])
    ELSE LET h == Len(w) \div 2
             mid == DevAfter(d, SubSeq(w, 1, h))
         IN  IF mid = d THEN DevAfter(d, SubSeq(w, h + 1, Len(w)))
             ELSE DevAfter(mid, SubSeq(w, h + 1, Len(w)))

\* USB1608fsplus.Status: the result of the control transfer is not looked
\* at; when the transfer fails the two bytes stay zero.  The error returned
\* is always nil.
Status(d, ok) ==
    LET data == IF ok THEN EncodeWord(DevStatus(d)) ELSE MakeBytes(2)
        status == DecodeWord(data) % 256
    IN  [wire |-> << StatusEntry(status, ok) >>, status |-> status,
         err |-> "nil"]

(***************************************************************************)
(* The scan session (AnalogInput).  An error is named after the message    *)
(* the code formats it with.                                               *)
(***************************************************************************)
StopScanIgnoresError(ok) ==
    [wire |-> SendCommandToDevice(commandAnalogStopScan, << >>, ok).wire,
     err |-> "nil"]

StopScan(ok) ==
    LET r == SendCommandToDevice(commandAnalogStopScan, << >>, ok)
    IN  [wire |-> r.wire,
         err |-> IF r.err # "nil" THEN "Error stopping analog input scan"
                 ELSE "nil"]

ClearScanBuffer(ok) ==
    LET r == SendCommandToDevice(commandAnalogClearBuffer, << >>, ok)
    IN  [wire |-> r.wire,
         err |-> IF r.err # "nil"
                 THEN "Error clearing analog input scan FIFO buffer"
                 ELSE "nil"]

\* Close as it would be if it cleared the FIFO instead of stopping the scan.
CloseClearsBuffer(ok) == ClearScanBuffer(ok)

Close(ok) == StopScan(ok)

\* StartScan as it would be if the start command were sent first.
StartScanStartFirst(a, numScans, o) ==
    LET freq == IF a.UseExternalPacer THEN 0 ELSE a.Frequency
        data == packScanData(numScans, freq, EnabledChannels(a), Options(a))
        stop == StopScan(o.stopOk)
        clear == ClearScanBuffer(o.clearOk)
        start == SendCommandToDevice(commandAnalogStartScan, data, o.startOk)
    IN  IF Len(data) # 10
        THEN [wire |-> << >>, err |-> "scan data length"]
        ELSE IF start.err # "nil"
        THEN [wire |-> start.wire,
              err |-> "error starting analog input scan"]
        ELSE IF stop.err # "nil"
        THEN [wire |-> start.wire \o stop.wire,
              err |-> "error stopping analog scan prior to starting a new scan"]
        ELSE IF clear.err # "nil"
        THEN [wire |-> start.wire \o stop.wire \o clear.wire,
              err |-> "error clearing buffer prior to starting a new scan"]
        ELSE [wire |-> start.wire \o stop.wire \o clear.wire, err |-> "nil"]

\* StartScan as it would be if the result of the clear were dropped.
StartScanDropsClearError(a, numScans, o) ==
    LET freq == IF a.UseExternalPacer THEN 0 ELSE a.Frequency
        data == packScanData(numScans, freq, EnabledChannels(a), Options(a))
        stop == StopScan(o.stopOk)
        clear == ClearScanBuffer(o.clearOk)
        start == SendCommandToDevice(commandAnalogStartScan, data, o.startOk)
    IN  IF Len(data) # 10
        THEN [wire |-> << >>, err |-> "scan data length"]
        ELSE IF stop.err # "nil"
        THEN [wire |-> stop.wire,
              err |-> "error stopping analog scan prior to starting a new scan"]
        ELSE IF start.err # "nil"
        THEN [wire |-> stop.wire \o clear.wire \o start.wire,
              err |-> "error starting analog input scan"]
        ELSE [wire |-> stop.wire \o clear.wire \o start.wire, err |-> "nil"]

\* o.stopOk, o.clearOk, o.startOk: whether the transport accepts the stop,
\* the clear and the start command.
\* StartScan as it would be without the stop before the new scan.
StartScanNoStop(a, numScans, o) ==
    LET freq == IF a.UseExternalPacer THEN 0 ELSE a.Frequency
        data == packScanData(numScans, freq, EnabledChannels(a), Options(a))
        clear == ClearScanBuffer(o.clearOk)
        start == SendCommandToDevice(commandAnalogStartScan, data, o.startOk)
    IN  IF clear.err # "nil"
        THEN [wire |-> clear.wire,
              err |-> "error clearing buffer prior to starting a new scan"]
        ELSE IF start.err # "nil"
        THEN [wire |-> clear.wire \o start.wire,
              err |-> "error starting analog input scan"]
        ELSE [wire |-> clear.wire \o start.wire, err |-> "nil"]

StartScan(a, numScans, o) ==
    LET freq == IF a.UseExternalPacer THEN 0 ELSE a.Frequency
        data == packScanData(numScans, freq, EnabledChannels(a), Options(a))
        stop == StopScan(o.stopOk)
        clear == ClearScanBuffer(o.clearOk)
        start == SendCommandToDevice(commandAnalogStartScan, data, o.startOk)
    IN  IF Len(data) # 10
        THEN [wire |-> << >>, err |-> "scan data length"]
        ELSE IF stop.err # "nil"
        THEN [wire |-> stop.wire,
              err |-> "error stopping analog scan prior to starting a new scan"]
        ELSE IF clear.err # "nil"
        THEN [wire |-> stop.wire \o clear.wire,
              err |-> "error clearing buffer prior to starting a new scan"]
        ELSE IF start.err # "nil"
        THEN [wire |-> stop.wire \o clear.wire \o start.wire,
              err |-> "error starting analog input scan"]
        ELSE [wire |-> stop.wire \o clear.wire \o start.wire, err |-> "nil"]

\* The outcome of the k-th bulk read of the data phase (k = 1, 2, ...):
\* all reads before o.failAt deliver what was requested.
Outcome(o, k, req) ==
    IF k = o.failAt THEN o.out ELSE [ok |-> TRUE, got |-> req]

\* The bytes a bulk read left in a buffer of `size` zero bytes.
Filled(size, bytes) ==
    [j \in 1..size |-> IF j <= Len(bytes) THEN bytes[j] ELSE 0]

RECURSIVE ImmediateLoopNoCountCheck(_, _, _, _, _, _)
\* The immediate loop as it would be without the check of the byte count.
ImmediateLoopNoCountCheck(i, wordsToRead, n, data, w, o) ==
    IF i >= wordsToRead
    THEN [n |-> n, err |-> "nil", data |-> data, wire |-> w]
    ELSE IF wordsToRead - i = 1
    THEN LET r == DAQRead(bytesPerWord, n,
                          Outcome(o, i + 1, bytesPerWord))
             word == Filled(bytesPerWord, r.e.data)
         IN  IF r.err # "nil"
             THEN [n |-> n, err |-> "immediate scan error", data |-> data,
                   wire |-> Append(w, r.e)]
             ELSE [n |-> n + r.n, err |-> "nil",
                   data |-> [data EXCEPT ![i + 1] = word[1],
                                         ![i + 2] = word[2]],
                   wire |-> Append(w, r.e)]
    ELSE LET mid == i + (wordsToRead - i) \div 2
             first == ImmediateLoopNoCountCheck(i, mid, n, data, w, o)
         IN  IF first.err # "nil" THEN first
             ELSE ImmediateLoopNoCountCheck(mid, wordsToRead, first.n,
                                            first.data, first.wire, o)

RECURSIVE ImmediateLoop(_, _, _, _, _, _)
\* The loop of Read in immediate transfer mode: the iterations from i to
\* wordsToRead - 1, in order.  One iteration reads a word, checks the error
\* and the byte count and stores the word; several are the first half of
\* them and then, when these left no error, the rest.
ImmediateLoop(i, wordsToRead, n, data, w, o) ==
    IF i >= wordsToRead
    THEN [n |-> n, err |-> "nil", data |-> data, wire |-> w]
    ELSE IF wordsToRead - i = 1
    THEN LET r == DAQRead(bytesPerWord, n,
                          Outcome(o, i + 1, bytesPerWord))
             word == Filled(bytesPerWord, r.e.data)
         IN  IF r.err # "nil"
             THEN [n |-> n, err |-> "immediate scan error", data |-> data,
                   wire |-> Append(w, r.e)]
             ELSE IF r.n # bytesPerWord
             THEN [n |-> n + r.n, err |-> "immediate transfer of bytes",
                   data |-> data, wire |-> Append(w, r.e)]
             ELSE [n |-> n + r.n, err |-> "nil",
                   data |-> [data EXCEPT ![i + 1] = word[1],
                                         ![i + 2] = word[2]],
                   wire |-> Append(w, r.e)]
    ELSE LET mid == i + (wordsToRead - i) \div 2
             first == ImmediateLoop(i, mid, n, data, w, o)
         IN  IF first.err # "nil" THEN first
             ELSE ImmediateLoop(mid, wordsToRead, first.n, first.data,
                                first.wire, o)

\* The block read as it would be without the check of the byte count.
BlockReadNoCountCheck(bytesToRead, o) ==
    LET r == DAQRead(bytesToRead, 0, Outcome(o, 1, bytesToRead))
        data == Filled(bytesToRead, r.e.data)
    IN  IF r.err # "nil"
        THEN [n |-> 0, err |-> "Problem with bulk scan", data |-> data,
              wire |-> << r.e >>]
        ELSE [n |-> r.n, err |-> "nil", data |-> data, wire |-> << r.e >>]

\* The single bulk read of Read in block transfer mode.
BlockRead(bytesToRead, o) ==
    LET r == DAQRead(bytesToRead, 0, Outcome(o, 1, bytesToRead))
        data == Filled(bytesToRead, r.e.data)
    IN  IF r.err # "nil"
        THEN [n |-> 0, err |-> "Problem with bulk scan", data |-> data,
              wire |-> << r.e >>]
        ELSE IF r.n # bytesToRead
        THEN [n |-> r.n, err |-> "Didn't transfer bytes", data |-> data,
              wire |-> << r.e >>]
        ELSE [n |-> r.n, err |-> "nil", data |-> data, wire |-> << r.e >>]

\* The data phase of Read: the switch on the transfer mode.
DataPhase(a, bytesToRead, o) ==
    IF a.TransferMode = ImmediateTransfer
    THEN ImmediateLoop(0, bytesToRead \div bytesPerWord, 0,
                       MakeBytes(bytesToRead), << >>, o)
    ELSE IF a.TransferMode = BlockTransfer
    THEN BlockRead(bytesToRead, o)
    ELSE [n |-> 0, err |-> "bad transfer mode",
          data |-> MakeBytes(bytesToRead), wire |-> << >>]

\* The line Read logs when the status has the overrun bit.
OverrunNotice == "Analog AIn scan overrun."

\* The end of Read as it would be if the overrun were tested with the mask
\* of the scan-running bit.
AfterDataWrongOverrunBit(d, bytesToRead, phase, p, o) ==
    LET st == Status(d, o.statusOk)
        drainIt == (bytesToRead % maxBulkTransferPacketSize) = 0
                   /\ And8(st.status, scanRunning, 8) = 0
        drain == DAQRead(bytesPerWord, phase.n, o.drain)
        overrun == And8(st.status, scanRunning, 8) # 0
    IN  [n |-> phase.n, err |-> st.err, p |-> p, data |-> phase.data,
         log |-> IF overrun THEN << OverrunNotice >> ELSE << >>,
         wire |-> phase.wire \o st.wire
                  \o (IF drainIt THEN << drain.e >> ELSE << >>)
                  \o (IF overrun
                      THEN StopScan(o.stopOk).wire
                           \o ClearScanBuffer(o.clearOk).wire
                      ELSE << >>)]

\* The end of Read as it would be if the drain read went into the scan
\* data and its byte count into n.
AfterDataDrainCounted(d, bytesToRead, phase, p, o) ==
    LET st == Status(d, o.statusOk)
        drainIt == (bytesToRead % maxBulkTransferPacketSize) = 0
                   /\ And8(st.status, scanRunning, 8) = 0
        drain == DAQRead(bytesPerWord, phase.n, o.drain)
        overrun == And8(st.status, scanOverrun, 8) # 0
    IN  [n |-> IF drainIt THEN phase.n + drain.n ELSE phase.n,
         err |-> st.err, p |-> p,
         data |-> IF drainIt
                  THEN [j \in 1..Len(phase.data) |->
                           IF j <= drain.n THEN drain.e.data[j]
                           ELSE phase.data[j]]
                  ELSE phase.data,
         log |-> IF overrun THEN << OverrunNotice >> ELSE << >>,
         wire |-> phase.wire \o st.wire
                  \o (IF drainIt THEN << drain.e >> ELSE << >>)
                  \o (IF overrun
                      THEN StopScan(o.stopOk).wire
                           \o ClearScanBuffer(o.clearOk).wire
                      ELSE << >>)]

\* The end of Read as it would be if the recovery from the overrun came
\* before the drain read.
AfterDataRecoveryFirst(d, bytesToRead, phase, p, o) ==
    LET st == Status(d, o.statusOk)
        drainIt == (bytesToRead % maxBulkTransferPacketSize) = 0
                   /\ And8(st.status, scanRunning, 8) = 0
        drain == DAQRead(bytesPerWord, phase.n, o.drain)
        overrun == And8(st.status, scanOverrun, 8) # 0
    IN  [n |-> phase.n, err |-> st.err, p |-> p, data |-> phase.data,
         log |-> IF overrun THEN << OverrunNotice >> ELSE << >>,
         wire |-> phase.wire \o st.wire
                  \o (IF overrun
                      THEN StopScan(o.stopOk).wire
                           \o ClearScanBuffer(o.clearOk).wire
                      ELSE << >>)
                  \o (IF drainIt THEN << drain.e >> ELSE << >>)]

\* What Read does after the data phase: status, drain, overrun recovery.
\* The drain reads into a buffer of its own and its result is dropped; the
\* results of the recovery commands are dropped.
AfterData(d, bytesToRead, phase, p, o) ==
    LET st == Status(d, o.statusOk)
        drainIt == (bytesToRead % maxBulkTransferPacketSize) = 0
                   /\ And8(st.status, scanRunning, 8) = 0
        drain == DAQRead(bytesPerWord, phase.n, o.drain)
        overrun == And8(st.status, scanOverrun, 8) # 0
    IN  IF st.err # "nil"
        THEN [n |-> phase.n, err |-> "error getting status", p |-> p,
              data |-> phase.data, wire |-> phase.wire \o st.wire,
              log |-> << >>]
        ELSE [n |-> phase.n, err |-> st.err, p |-> p, data |-> phase.data,
              log |-> IF overrun THEN << OverrunNotice >> ELSE << >>,
              wire |-> phase.wire \o st.wire
                       \o (IF drainIt THEN << drain.e >> ELSE << >>)
                       \o (IF overrun
                           THEN StopScan(o.stopOk).wire
                                \o ClearScanBuffer(o.clearOk).wire
                           ELSE << >>)]

\* Read as it would be if the length were checked against the word size.
ReadChecksWordSize(d, p, phase, o) ==
    LET bytesToRead == Len(p)
    IN  IF (bytesToRead % bytesPerWord) # 0
        THEN [n |-> 0, err |-> "not a multiple of maxBulkTransferPacketSize",
              p |-> p, data |-> << >>, wire |-> << >>, log |-> << >>]
        ELSE IF phase.err # "nil"
        THEN [n |-> phase.n, err |-> phase.err, p |-> p,
              data |-> phase.data, wire |-> phase.wire, log |-> << >>]
        ELSE AfterData(d, bytesToRead, phase, p, o)

\* AnalogInput.Read(p): n and err as returned, p the caller's buffer and
\* data the local buffer when Read returns, wire the transfers issued.
\* phase is what the switch on the transfer mode yields for this call,
\* DataPhase(ai, len(p), o); Read runs it after the check of the length.
Read(d, p, phase, o) ==
    LET bytesToRead == Len(p)
    IN  IF (bytesToRead % maxBulkTransferPacketSize) # 0
        THEN [n |-> 0, err |-> "not a multiple of maxBulkTransferPacketSize",
              p |-> p, data |-> << >>, wire |-> << >>, log |-> << >>]
        ELSE IF phase.err # "nil"
        THEN [n |-> phase.n, err |-> phase.err, p |-> p,
              data |-> phase.data, wire |-> phase.wire, log |-> << >>]
        ELSE AfterData(d, bytesToRead, phase, p, o)

\* Channels[ch].Enabled = enabled
SetEnabled(a, ch, enabled) ==
    [a EXCEPT !.Channels[ch].Enabled = enabled]

\* TransferMode.BlockMode(block) on the session's transfer mode
BlockMode(a, block) ==
    [a EXCEPT !.TransferMode = IF block THEN BlockTransfer
                               ELSE ImmediateTransfer]

\* The session NewAnalogInput returns.
NewAnalogInput ==
    [Frequency |-> defaultFrequency,
     TransferMode |-> BlockTransfer,
     Trigger |-> NoExternalTrigger,
     UseExternalPacer |-> FALSE,
     OutputPacerOnSync |-> FALSE,
     DebugMode |-> FALSE,
     Stall |-> StallOnOverrun,
     Channels |-> [i \in 0..(numChannels - 1) |->
                      [Enabled |-> FALSE, Range |-> Range10V,
                       Description |-> ""]]]

(***************************************************************************)
(* State.                                                                  *)
(*   ai    the session                                                     *)
(*   dev   the device behind the session's transport                       *)
(*   wire  the transfers issued by the last call, in order                 *)
(*   ret   the last call: its name, argument and results                   *)
(*   cal   the last construction: its calibration reads and its results    *)
(*   calc  the last evaluation of a function of the package                *)
(*   bench the two devices of the two_daqs example, the sessions made on   *)
(*         them and the maps the constructions allocated                   *)
(***************************************************************************)
VARIABLES ai, dev, wire, ret, cal, calc, bench

vars == << ai, dev, wire, ret, cal, calc, bench >>

\* No construction has been followed, no function has been evaluated.
NoCal == [op |-> "none"]

NoCalc == [fn |-> "none"]

\* The result of a call that returns nothing but an error.
Ret(op, arg, err) ==
    [op |-> op, arg |-> arg, err |-> err, n |-> 0, p |-> << >>,
     data |-> << >>, log |-> << >>]

\* Inputs of the calls.
NumScansChoices == {0, 1, 256}
PLens == {0, MaxPackets * maxBulkTransferPacketSize}
         \cup {bytesPerWord, maxBulkTransferPacketSize + 36}

\* The ways a bulk read of req bytes can go wrong: an error, or fewer
\* bytes than requested.
FailOuts(req) ==
    {out \in [ok : BOOLEAN, got : {0, req - 1, req} \cap (0..req)] :
        ~(out.ok /\ out.got = req)}

\* The outcomes of the drain read: the zero-length packet, an error, or
\* two more bytes.
DrainOuts ==
    {[ok |-> TRUE, got |-> 0], [ok |-> FALSE, got |-> 0],
     [ok |-> TRUE, got |-> bytesPerWord]}

\* The data reads that may fail: the first, one in the middle, the last.
FailAts(reads) == {1, (reads + 1) \div 2, reads} \cap (1..reads)

\* The number of bulk reads the data phase issues when none fails.
DataReads(a, plen) ==
    IF plen % maxBulkTransferPacketSize # 0 THEN 0
    ELSE IF a.TransferMode = ImmediateTransfer THEN plen \div bytesPerWord
    ELSE 1

DataReq(a, plen) ==
    IF a.TransferMode = ImmediateTransfer THEN bytesPerWord ELSE plen

\* The transport outcomes of the data phase of one Read: all data reads
\* deliver what was requested, or one of them goes wrong.
DataOracles(a, plen) ==
    {[failAt |-> k, out |-> out] :
        k \in FailAts(DataReads(a, plen)),
        out \in FailOuts(DataReq(a, plen))}
    \cup {[failAt |-> 0, out |-> [ok |-> TRUE, got |-> 0]]}

\* The transport outcomes of the status query, the drain read and the
\* recovery commands.  After a data phase that failed none of them is
\* issued, and one outcome stands for all.
EndOracles(phase) ==
    IF phase.err # "nil"
    THEN {[statusOk |-> TRUE, drain |-> [ok |-> TRUE, got |-> 0],
           stopOk |-> TRUE, clearOk |-> TRUE]}
    ELSE [statusOk : BOOLEAN, drain : DrainOuts, stopOk : BOOLEAN,
          clearOk : BOOLEAN]

\* The devices of the two_daqs example, daq1 and daq2.
Handles == {1, 2}

\* The sessions, one for each device.
Sessions == {1, 2}

\* A session that has not been made.
NoSession == [DAQ |-> 0]

\* The bench before a session is made: both devices open and idle, no map
\* allocated.
TwoDaqs ==
    [daqs |-> [h \in Handles |-> IdleDevice],
     inbox |-> [h \in Handles |-> << >>],
     maps |-> << >>,
     ais |-> [s \in Sessions |-> NoSession]]

Init ==
    /\ bench = TwoDaqs
    /\ ai = NewAnalogInput
    /\ dev = IdleDevice
    /\ wire = << >>
    /\ ret = Ret("NewAnalogInput", 0, "nil")
    /\ cal = NoCal
    /\ calc = NoCalc

CallStartScan ==
    \E numScans \in NumScansChoices,
       o \in [stopOk : BOOLEAN, clearOk : BOOLEAN, startOk : BOOLEAN] :
        LET r == StartScan(ai, numScans, o)
        IN  /\ wire' = r.wire
            /\ dev' = DevAfter(dev, r.wire)
            /\ ret' = Ret("StartScan", numScans, r.err)
            /\ UNCHANGED << ai, cal, calc, bench >>

CallRead ==
    \E plen \in PLens :
        \E od \in DataOracles(ai, plen) :
            \E phase \in {DataPhase(ai, plen, od)} :
                \E oe \in EndOracles(phase) :
                    \E r \in {Read(dev, MakeBytes(plen), phase, oe)} :
                        /\ wire' = r.wire
                        /\ dev' = DevAfter(dev, r.wire)
                        /\ ret' = [op |-> "Read", arg |-> plen,
                                   err |-> r.err, n |-> r.n, p |-> r.p,
                                   data |-> r.data, log |-> r.log]
                        /\ UNCHANGED << ai, cal, calc, bench >>

CallStopScan ==
    \E ok \in BOOLEAN :
        LET r == StopScan(ok)
        IN  /\ wire' = r.wire
            /\ dev' = DevAfter(dev, r.wire)
            /\ ret' = Ret("StopScan", 0, r.err)
            /\ UNCHANGED << ai, cal, calc, bench >>

CallClearScanBuffer ==
    \E ok \in BOOLEAN :
        LET r == ClearScanBuffer(ok)
        IN  /\ wire' = r.wire
            /\ dev' = DevAfter(dev, r.wire)
            /\ ret' = Ret("ClearScanBuffer", 0, r.err)
            /\ UNCHANGED << ai, cal, calc, bench >>

CallClose ==
    \E ok \in BOOLEAN :
        LET r == Close(ok)
        IN  /\ wire' = r.wire
            /\ dev' = DevAfter(dev, r.wire)
            /\ ret' = Ret("Close", 0, r.err)
            /\ UNCHANGED << ai, cal, calc, bench >>

CallBlockMode ==
    \E block \in BOOLEAN :
        /\ ai' = BlockMode(ai, block)
        /\ wire' = << >>
        /\ ret' = Ret("BlockMode", IF block THEN 1 ELSE 0, "nil")
        /\ UNCHANGED << dev, cal, calc, bench >>

CallEnableChannel ==
    \E ch \in 0..(MaxChan - 1) :
        /\ ai' = SetEnabled(ai, ch, TRUE)
        /\ wire' = << >>
        /\ ret' = Ret("EnableChannel", ch, "nil")
        /\ UNCHANGED << dev, cal, calc, bench >>

CallDisableChannel ==
    \E ch \in 0..(MaxChan - 1) :
        /\ ai' = SetEnabled(ai, ch, FALSE)
        /\ wire' = << >>
        /\ ret' = Ret("DisableChannel", ch, "nil")
        /\ UNCHANGED << dev, cal, calc, bench >>

\* The FIFO of the device overruns while a scan is running.
DeviceOverrun ==
    /\ dev.running
    /\ ~dev.overrun
    /\ dev' = [dev EXCEPT !.overrun = TRUE]
    /\ UNCHANGED << ai, wire, ret, cal, calc, bench >>

\* A scan of a given number of scans reaches its count.
DeviceScanDone ==
    /\ dev.running
    /\ ~dev.continuous
    /\ dev' = [dev EXCEPT !.running = FALSE]
    /\ UNCHANGED << ai, wire, ret, cal, calc, bench >>

Next ==
    \/ CallStartScan
    \/ CallRead
    \/ CallStopScan
    \/ CallClearScanBuffer
    \/ CallClose
    \/ CallBlockMode
    \/ CallEnableChannel
    \/ CallDisableChannel
    \/ DeviceOverrun
    \/ DeviceScanDone

Spec == Init /\ [][Next]_vars

(***************************************************************************)
(* Reading the log of a call.                                              *)
(***************************************************************************)
IsCmdEntry(e) == e.op = "cmd"

IsBulkEntry(e) == e.op = "bulk"

IsCmd(e, cmd) == e.op = "cmd" /\ e.cmd = cmd

\* The command codes sent, in order.
CmdCodes(w) ==
    LET c == SelectSeq(w, IsCmdEntry)
    IN  [i \in 1..Len(c) |-> c[i].cmd]

\* The position of the status query in the log, 0 when there is none.
StatusIdx(w) ==
    IF \E i \in 1..Len(w) : w[i].op = "status"
    THEN CHOOSE i \in 1..Len(w) :
            w[i].op = "status" /\ \A j \in 1..(i - 1) : w[j].op # "status"
    ELSE 0

\* The status byte Read got.
StatusRead(w) == w[StatusIdx(w)].data[1]

\* The transfers of the data phase: those before the status query.
DataPart(w) ==
    IF StatusIdx(w) = 0 THEN w ELSE SubSeq(w, 1, StatusIdx(w) - 1)

\* The transfers after the status query.
AfterPart(w) ==
    IF StatusIdx(w) = 0 THEN << >> ELSE SubSeq(w, StatusIdx(w) + 1, Len(w))

RECURSIVE Delivered(_)
\* The bytes the bulk reads of a log delivered, in order.
Delivered(w) ==
    IF w = << >> THEN << >>
    ELSE IF Len(w) = 1
    THEN (IF IsBulkEntry(w[1]) THEN w[1].data ELSE << >>)
    ELSE Delivered(SubSeq(w, 1, Len(w) \div 2))
         \o Delivered(SubSeq(w, Len(w) \div 2 + 1, Len(w)))

OverrunSeen(w) ==
    StatusIdx(w) > 0 /\ And8(StatusRead(w), scanOverrun, 8) # 0

RunningSeen(w) ==
    StatusIdx(w) > 0 /\ And8(StatusRead(w), scanRunning, 8) # 0

ValidLen(len) == len % maxBulkTransferPacketSize = 0

(***************************************************************************)
(* Properties of the scan session.                                         *)
(***************************************************************************)
\* C1: a StartScan whose transfers are all accepted sends exactly the
\* commands AnalogStopScan, AnalogClearBuffer, AnalogStartScan in this
\* order, the last with the 10-byte scan packet of the session; and in no
\* StartScan is the start command sent before the stop and the clear.
C1_StartScanOrder ==
    ret.op = "StartScan" =>
        /\ (\A i \in 1..Len(wire) : wire[i].ok) =>
              /\ Len(wire) = 3
              /\ \A i \in 1..Len(wire) : IsCmdEntry(wire[i])
              /\ CmdCodes(wire) = << commandAnalogStopScan,
                                     commandAnalogClearBuffer,
                                     commandAnalogStartScan >>
              /\ Len(wire[3].data) = 10
              /\ wire[3].data =
                    packScanData(ret.arg,
                                 IF ai.UseExternalPacer THEN 0
                                 ELSE ai.Frequency,
                                 EnabledChannels(ai), Options(ai))
        /\ \A i \in 1..Len(wire) :
              IsCmd(wire[i], commandAnalogStartScan) =>
                  \E j \in 1..(i - 1) :
                      /\ IsCmd(wire[j], commandAnalogStopScan)
                      /\ \E k \in (j + 1)..(i - 1) :
                            IsCmd(wire[k], commandAnalogClearBuffer)

\* A StartScan went through and the device scans.
C1_Witness ==
    /\ ret.op = "StartScan"
    /\ ret.err = "nil"
    /\ Len(wire) = 3
    /\ \A i \in 1..3 : wire[i].ok
    /\ dev.running

\* C2: a Read of a buffer whose length is no multiple of 64 returns an
\* error and n = 0 and issues no transfer.
C2_ReadRejectsLength ==
    (ret.op = "Read" /\ ~ValidLen(ret.arg)) =>
        /\ ret.err # "nil"
        /\ ret.n = 0
        /\ wire = << >>

\* A Read of 100 bytes was refused while a scan was running.
C2_Witness ==
    /\ ret.op = "Read"
    /\ ret.arg = maxBulkTransferPacketSize + 36
    /\ ret.err # "nil"
    /\ dev.running

\* C3: after a Read that returns nil, n is the length of the caller's
\* buffer and the buffer holds the bytes the data phase delivered, in order.
C3_ReadFillsCallerBuffer ==
    (ret.op = "Read" /\ ret.err = "nil") =>
        /\ ret.n = Len(ret.p)
        /\ ret.p = Delivered(DataPart(wire))

\* C4: Read sends the commands stop, clear (in this order, once each) when
\* the status it read has the overrun bit set, and no command otherwise.
C4_RecoveryIffOverrun ==
    ret.op = "Read" =>
        /\ CmdCodes(wire) =
              IF OverrunSeen(wire)
              THEN << commandAnalogStopScan, commandAnalogClearBuffer >>
              ELSE << >>
        /\ CmdCodes(DataPart(wire)) = << >>

\* A Read saw the overrun bit and sent stop and clear; the stop failed.
C4_Witness ==
    /\ ret.op = "Read"
    /\ OverrunSeen(wire)
    /\ Len(AfterPart(wire)) >= 2
    /\ LET a == AfterPart(wire)
       IN  /\ IsCmd(a[Len(a) - 1], commandAnalogStopScan)
           /\ ~a[Len(a) - 1].ok
           /\ IsCmd(a[Len(a)], commandAnalogClearBuffer)

\* C5: a Read whose status has the overrun bit set returns a non-nil error
\* and, as n, the number of bytes of the data phase.
C5_OverrunReported ==
    (ret.op = "Read" /\ OverrunSeen(wire)) =>
        /\ ret.err # "nil"
        /\ ret.n = Len(Delivered(DataPart(wire)))

\* C6: after a successful data phase Read issues one more bulk read, of 2
\* bytes, when the scan-running bit of the status is clear, and none when
\* it is set; n counts the bytes of the data phase only and in block mode
\* the scan data are the bytes of the data phase only.
C6_DrainWhenStopped ==
    (ret.op = "Read" /\ StatusIdx(wire) > 0) =>
        LET drains == SelectSeq(AfterPart(wire), IsBulkEntry)
        IN  /\ Len(drains) = IF RunningSeen(wire) THEN 0 ELSE 1
            /\ \A i \in 1..Len(drains) : drains[i].req = bytesPerWord
            /\ ret.n = Len(Delivered(DataPart(wire)))
            /\ ret.n = ret.arg
            /\ Len(ret.data) = ret.arg
            /\ ai.TransferMode = BlockTransfer =>
                  ret.data = Delivered(DataPart(wire))

\* A Read of a full packet found the scan stopped and the drain read
\* delivered two bytes.
C6_Witness ==
    /\ ret.op = "Read"
    /\ StatusIdx(wire) > 0
    /\ ~RunningSeen(wire)
    /\ ret.arg >= maxBulkTransferPacketSize
    /\ \E i \in 1..Len(AfterPart(wire)) :
          /\ IsBulkEntry(AfterPart(wire)[i])
          /\ AfterPart(wire)[i].got = bytesPerWord

\* C7: in block transfer mode a Read of a valid length issues one bulk
\* read in its data phase, for all len(p) bytes, and returns an error when
\* that read fails or delivers another number of bytes.
C7_BlockRead ==
    (ret.op = "Read" /\ ai.TransferMode = BlockTransfer
        /\ ValidLen(ret.arg)) =>
        /\ Len(wire) >= 1
        /\ IsBulkEntry(wire[1])
        /\ wire[1].req = ret.arg
        /\ Len(SelectSeq(DataPart(wire), IsBulkEntry)) = 1
        /\ (~wire[1].ok \/ wire[1].got # ret.arg) => ret.err # "nil"

\* A block Read got one byte less than it asked for, without an error of
\* the transport.
C7_Witness ==
    /\ ret.op = "Read"
    /\ ai.TransferMode = BlockTransfer
    /\ ret.arg >= maxBulkTransferPacketSize
    /\ ValidLen(ret.arg)
    /\ wire[1].ok
    /\ wire[1].got = ret.arg - 1
    /\ ret.err # "nil"

\* C8: in immediate transfer mode the data phase of a Read of len(p) bytes
\* is at most len(p)/2 bulk reads of 2 bytes each; a read that fails or
\* delivers another number of bytes is the last transfer of the call, and
\* the call returns an error.
C8_ImmediateRead ==
    (ret.op = "Read" /\ ai.TransferMode = ImmediateTransfer
        /\ ValidLen(ret.arg)) =>
        LET dp == DataPart(wire)
        IN  /\ Len(dp) <= ret.arg \div bytesPerWord
            /\ \A i \in 1..Len(dp) :
                  /\ IsBulkEntry(dp[i])
                  /\ dp[i].req = bytesPerWord
                  /\ (~dp[i].ok \/ dp[i].got # bytesPerWord) =>
                        (i = Len(wire) /\ ret.err # "nil")

\* An immediate Read stopped at a word in the middle that came with one
\* byte only.
C8_Witness ==
    /\ ret.op = "Read"
    /\ ai.TransferMode = ImmediateTransfer
    /\ ValidLen(ret.arg)
    /\ Len(wire) > 1
    /\ Len(wire) < ret.arg \div bytesPerWord
    /\ wire[Len(wire)].ok
    /\ wire[Len(wire)].got = 1
    /\ ret.err # "nil"

\* C9: StartScan returns nil only when stop, clear and start were all
\* accepted; a refused stop ends the call with the stop error and nothing
\* else sent, a refused clear with the clear error and no start sent, a
\* refused start with the start error.
C9_StartScanErrors ==
    ret.op = "StartScan" =>
        /\ Len(wire) >= 1
        /\ IsCmd(wire[1], commandAnalogStopScan)
        /\ ret.err = "nil" =>
              (Len(wire) = 3 /\ \A i \in 1..3 : wire[i].ok)
        /\ ~wire[1].ok =>
              /\ Len(wire) = 1
              /\ ret.err =
                    "error stopping analog scan prior to starting a new scan"
        /\ (Len(wire) >= 2 /\ ~wire[2].ok) =>
              /\ IsCmd(wire[2], commandAnalogClearBuffer)
              /\ Len(wire) = 2
              /\ ret.err =
                    "error clearing buffer prior to starting a new scan"
        /\ (Len(wire) >= 3 /\ ~wire[3].ok) =>
              /\ IsCmd(wire[3], commandAnalogStartScan)
              /\ ret.err = "error starting analog input scan"

\* A StartScan whose clear was refused.
C9_Witness ==
    /\ ret.op = "StartScan"
    /\ Len(wire) = 2
    /\ wire[1].ok
    /\ ~wire[2].ok
    /\ ret.err # "nil"

\* C10: Close sends one command, AnalogStopScan, and returns nil exactly
\* when that command was accepted; after a Close that returned nil the
\* device does not scan.
C10_CloseStops ==
    ret.op = "Close" =>
        /\ Len(wire) = 1
        /\ IsCmd(wire[1], commandAnalogStopScan)
        /\ (ret.err = "nil") <=> wire[1].ok
        /\ ret.err = "nil" => ~dev.running

\* A Close that returned nil; the scan it stopped was continuous and had
\* overrun, so nothing but a stop command could have ended it.
C10_Witness ==
    /\ ret.op = "Close"
    /\ ret.err = "nil"
    /\ dev.continuous
    /\ dev.overrun
    /\ ~dev.running


(***************************************************************************)
(* Calibration memory and the gain table.                                  *)
(***************************************************************************)
maxNumADChannels == 8

maxNumGainLevels == 8

numCalMemoryBytes == 768

maxCalMemoryLocation == 767

validCalMemoryRangeOffByOne(address, count) ==
    IF count <= 0 \/ count > numCalMemoryBytes THEN FALSE
    ELSE IF address < 0 \/ maxCalMemoryLocation < address + count THEN FALSE
    ELSE TRUE

validCalMemoryRange(address, count) ==
    IF count <= 0 \/ count > numCalMemoryBytes THEN FALSE
    ELSE IF address < 0 \/ maxCalMemoryLocation < address + count - 1
         THEN FALSE
    ELSE TRUE

\* A float32 by its sign, biased exponent and fraction, read little-endian
\* from four bytes.
convertBytesToFloat32(data) ==
    [sign |-> data[4] \div 128,
     exp  |-> (data[4] % 128) * 2 + data[3] \div 128,
     mant |-> (data[3] % 128) * 65536 + data[2] * 256 + data[1]]

\* A float64 is kept as a decimal of six places: int + micro / 1000000 with
\* 0 <= micro < 1000000, so that int is the floor of the value.
Fx(int, micro) == [int |-> int, micro |-> micro]

FxNeg(x) ==
    IF x.micro = 0 THEN Fx(0 - x.int, 0)
    ELSE Fx(0 - x.int - 1, 1000000 - x.micro)

\* float64(f) of a float32 f.  The six high bits of the fraction are kept:
\* the value is (64 + t) * 2^(exp - 133), exact for the floats of the
\* calibration images, cut to six bits of fraction and six decimal places
\* for any other.
Float64(f) ==
    LET n == 64 + f.mant \div 131072
        k == 133 - f.exp
        mag == IF f.exp = 0 \/ k > 30 THEN Fx(0, 0)
               ELSE IF k <= 0 THEN Fx(n * 2^(0 - k), 0)
               ELSE Fx(n \div 2^k, ((n % 2^k) * 1000000) \div 2^k)
    IN  IF f.sign = 1 THEN FxNeg(mag) ELSE mag

\* The calibration memory of a device: under "unity" every slope is 1.0 and
\* every intercept 0.0; under "factory" the slope at word v is the float32
\* 1 + v/128 and the intercept at word v is -(64 + v \div 2), so no two
\* slopes and no two intercepts of the table are equal.
CalImages == {"unity", "factory"}

CalByte(image, addr) ==
    LET v == addr \div 4
        k == addr % 4
    IN  IF image = "unity"
        THEN IF v % 2 = 0 THEN << 0, 0, 128, 63 >>[k + 1] ELSE 0
        ELSE IF v % 2 = 0 THEN << 0, 0, 128 + v, 63 >>[k + 1]
             ELSE << 0, 0, 128 + 2 * (v \div 2), 194 >>[k + 1]

\* One control transfer to the calibration memory.
CalEntry(address, count, ok) ==
    [op |-> "cal", address |-> address, count |-> count, ok |-> ok]

\* ReadCalMemory allocates its buffer, checks the range, issues the
\* transfer and returns the buffer; the result of the transfer is not
\* looked at, so a failed transfer leaves the zeroes of the allocation.
ReadCalMemory(image, address, count, ok) ==
    IF count < 0
    THEN [data |-> << >>, err |-> "panic: makeslice: len out of range",
          wire |-> << >>]
    ELSE IF ~validCalMemoryRange(address, count)
    THEN [data |-> << >>,
          err |-> "Tyring to access outside calibration memory range 0x0000 to 0x02FF",
          wire |-> << >>]
    ELSE [data |-> [k \in 1..count |->
                       IF ok THEN CalByte(image, address + k - 1) ELSE 0],
          err |-> "nil",
          wire |-> << CalEntry(address, count, ok) >>]

\* The reads of BuildGainTable, numbered from 1: read k is at address
\* 4 (k - 1); slope[i][j] is read 2 (8 i + j) + 1, intercept[i][j] the next.
NumCalReads == 2 * maxNumGainLevels * maxNumADChannels

BuildGainTableInterceptFirst(image, oks) ==
    LET bytesPerValue == 4
        rd(k) == ReadCalMemory(image, bytesPerValue * (k - 1),
                               bytesPerValue, oks[k])
        at(i, j) == 2 * (maxNumADChannels * i + j) + 1
    IN  [table |->
            [Slope |-> [i \in 0..(maxNumGainLevels - 1) |->
                          [j \in 0..(maxNumADChannels - 1) |->
                             Float64(convertBytesToFloat32(
                                 rd(at(i, j) + 1).data))]],
             Intercept |-> [i \in 0..(maxNumGainLevels - 1) |->
                          [j \in 0..(maxNumADChannels - 1) |->
                             Float64(convertBytesToFloat32(
                                 rd(at(i, j)).data))]]],
         err |-> "nil",
         wire |-> [k \in 1..NumCalReads |-> rd(k).wire[1]]]

BuildGainTable(image, oks) ==
    LET bytesPerValue == 4
        rd(k) == ReadCalMemory(image, bytesPerValue * (k - 1),
                               bytesPerValue, oks[k])
        at(i, j) == 2 * (maxNumADChannels * i + j) + 1
    IN  [table |->
            [Slope |-> [i \in 0..(maxNumGainLevels - 1) |->
                          [j \in 0..(maxNumADChannels - 1) |->
                             Float64(convertBytesToFloat32(
                                 rd(at(i, j)).data))]],
             Intercept |-> [i \in 0..(maxNumGainLevels - 1) |->
                          [j \in 0..(maxNumADChannels - 1) |->
                             Float64(convertBytesToFloat32(
                                 rd(at(i, j) + 1).data))]]],
         err |-> "nil",
         wire |-> [k \in 1..NumCalReads |-> rd(k).wire[1]]]

\* The construction of a session: the gain table is built first, and an
\* error of BuildGainTable ends the construction with no session.
Construct(image, oks) ==
    LET built == BuildGainTable(image, oks)
    IN  IF built.err # "nil"
        THEN [op |-> "NewAnalogInput", session |-> FALSE,
              err |-> "Error reading gain table from DAQ",
              table |-> built.table, wire |-> built.wire]
        ELSE [op |-> "NewAnalogInput", session |-> TRUE, err |-> "nil",
              table |-> built.table, wire |-> built.wire]

\* The outcomes of the 128 transfers: all succeed, one fails, all fail.
CalOutcomes ==
    {[k \in 1..NumCalReads |-> TRUE], [k \in 1..NumCalReads |-> FALSE]}
    \cup {[k \in 1..NumCalReads |-> k # f] : f \in 1..NumCalReads}

\* The construction opens a behaviour: it is followed once.
CallNewAnalogInput ==
    /\ cal = NoCal
    /\ \E image \in CalImages, oks \in CalOutcomes :
           LET c == Construct(image, oks)
           IN  /\ cal' = c
               /\ ai' = IF c.session THEN NewAnalogInput ELSE ai
               /\ ret' = Ret("NewAnalogInput", 0, c.err)
               /\ UNCHANGED << dev, wire, calc, bench >>

CallReadCalMemory ==
    \E image \in CalImages, address \in {-1, 0, 1, 4, 508, 764, 767, 768},
       count \in {-1, 0, 1, 4, 767, 768, 769},
       ok \in BOOLEAN :
        LET r == ReadCalMemory(image, address, count, ok)
        IN  /\ cal' = [op |-> "ReadCalMemory", address |-> address,
                       count |-> count, data |-> r.data, err |-> r.err,
                       wire |-> r.wire]
            /\ UNCHANGED << ai, dev, wire, ret, calc, bench >>

NextCal ==
    \/ CallNewAnalogInput
    \/ CallReadCalMemory

SpecCal == Init /\ [][NextCal]_vars

\* C11: a construction returns a session and a gain table only when every
\* one of its calibration reads succeeded, and returns an error and no
\* session when any of them failed.
C11_GainTableNeedsEveryRead ==
    cal.op = "NewAnalogInput" =>
        LET allOk == \A k \in 1..Len(cal.wire) : cal.wire[k].ok
        IN  /\ cal.session <=> allOk
            /\ (cal.err # "nil") <=> ~allOk


(***************************************************************************)
(* Conversion of words to voltages.                                        *)
(***************************************************************************)
converter == 32768

\* VoltageMultiplier, a Go map: a range code that is not a key reads as 0.0.
VoltageMultiplier == (0 :> 10) @@ (1 :> 5) @@ (3 :> 2) @@ (5 :> 1)

Multiplier(vr) ==
    IF vr \in DOMAIN VoltageMultiplier THEN VoltageMultiplier[vr] ELSE 0

\* A voltage is kept as the fraction num / converter: the product and the
\* division by a power of two are exact in a float64.
VoltsNoOffset(b, voltageRange) ==
    [num |-> Multiplier(voltageRange) * b, den |-> converter]

Volts(b, voltageRange) ==
    LET signedInt == b - converter
    IN  [num |-> Multiplier(voltageRange) * signedInt, den |-> converter]

roundFloatToInt(f) ==
    IF (f.int = 0 /\ f.micro < 500000) \/ (f.int = -1 /\ f.micro > 500000)
    THEN 0
    ELSE IF f.int >= 0
         THEN f.int + (IF f.micro >= 500000 THEN 1 ELSE 0)
         ELSE f.int + (IF f.micro > 500000 THEN 1 ELSE 0)

\* float64(value) * slope + offset, summed by thousandths and millionths so
\* that no partial sum leaves 32 bits.
MulAdd(value, slope, offset) ==
    LET a == slope.micro \div 1000
        b == slope.micro % 1000
        t == value * b + offset.micro
        m == value * a + t \div 1000
    IN  Fx(value * slope.int + offset.int + m \div 1000,
           (m % 1000) * 1000 + (t % 1000))

adjustRawValueSigned(value, slope, offset) ==
    roundFloatToInt(MulAdd(IF value >= converter THEN value - 2 * converter
                           ELSE value, slope, offset))

adjustRawValueClamped(value, slope, offset) ==
    LET adjusted == roundFloatToInt(MulAdd(value, slope, offset))
    IN  IF adjusted < 0 THEN 0
        ELSE IF adjusted > 2 * converter - 1 THEN 2 * converter - 1
        ELSE adjusted

adjustRawValue(value, slope, offset) ==
    LET adjFloat == MulAdd(value, slope, offset)
    IN  roundFloatToInt(adjFloat)

VoltsFromWord(data, voltageRange, slope, offset) ==
    IF Len(data) # bytesPerWord
    THEN [v |-> Volts(converter, 0), err |-> "binary value must be 2 bytes"]
    ELSE LET rawValue == DecodeWord(data)
             adjustedValue == adjustRawValue(rawValue, slope, offset)
         IN  [v |-> Volts(adjustedValue, voltageRange), err |-> "nil"]

RawVoltsFromWord(data, voltageRange) ==
    IF Len(data) # bytesPerWord
    THEN [v |-> Volts(converter, 0), err |-> "binary value must be 2 bytes"]
    ELSE LET rawValue == DecodeWord(data)
         IN  [v |-> Volts(rawValue, voltageRange), err |-> "nil"]

ChannelGainsTransposed(table) ==
    [i \in 0..(numChannels - 1) |->
        [Slopes |-> [rng \in 0..(maxNumGainLevels - 1) |->
                        table.Slope[i][rng]],
         Intercepts |-> [rng \in 0..(maxNumGainLevels - 1) |->
                        table.Intercept[i][rng]]]]

\* The gains NewAnalogInput copies from the gain table into each channel:
\* Slopes[rng] and Intercepts[rng] of channel i.
ChannelGains(table) ==
    [i \in 0..(numChannels - 1) |->
        [Slopes |-> [rng \in 0..(maxNumGainLevels - 1) |->
                        table.Slope[rng][i]],
         Intercepts |-> [rng \in 0..(maxNumGainLevels - 1) |->
                        table.Intercept[rng][i]]]]

\* The two bytes of the word with the given index of data (from 0).
WordAt(data, word) ==
    LET firstByte == word * bytesPerWord
    IN  SubSeq(data, firstByte + 1, firstByte + bytesPerWord)

\* RawVoltages and Voltages: volts is nil (no row) on the length error, or
\* one row for each of the session's channels.
RawVoltages(a, data) ==
    IF Len(data) % (bytesPerWord * numChannels) # 0
    THEN [volts |-> << >>,
          err |-> "data len must be multiple of 2 bytes x 8 channels"]
    ELSE LET scans == Len(data) \div (bytesPerWord * numChannels)
         IN  [volts |->
                 [i \in 0..(numChannels - 1) |->
                     [scan \in 1..scans |->
                         RawVoltsFromWord(
                             WordAt(data, (scan - 1) * numChannels + i),
                             a.Channels[i].Range).v]],
              err |-> "nil"]

Voltages(a, gains, data) ==
    IF Len(data) % (bytesPerWord * numChannels) # 0
    THEN [volts |-> << >>,
          err |-> "data len must be multiple of 2 bytes x 8 channels"]
    ELSE LET scans == Len(data) \div (bytesPerWord * numChannels)
             slopes == [i \in 0..(numChannels - 1) |->
                           gains[i].Slopes[a.Channels[i].Range]]
             offsets == [i \in 0..(numChannels - 1) |->
                           gains[i].Intercepts[a.Channels[i].Range]]
         IN  [volts |->
                 [i \in 0..(numChannels - 1) |->
                     [scan \in 1..scans |->
                         VoltsFromWord(
                             WordAt(data, (scan - 1) * numChannels + i),
                             a.Channels[i].Range, slopes[i], offsets[i]).v]],
              err |-> "nil"]

\* Channel.Volts of channel ch
ChannelVolts(a, gains, ch, data) ==
    VoltsFromWord(data, a.Channels[ch].Range,
                  gains[ch].Slopes[a.Channels[ch].Range],
                  gains[ch].Intercepts[a.Channels[ch].Range])

\* InputRanges, a Go map from the names of the ranges to their codes
InputRangesTwoVoltsAsFour ==
    ("10V" :> 0) @@ ("5V" :> 1) @@ ("2V" :> 4) @@ ("1V" :> 5)

InputRanges == ("10V" :> 0) @@ ("5V" :> 1) @@ ("2V" :> 3) @@ ("1V" :> 5)

configureChannelNoIndexCheck(a, ch, enabled, voltage, description) ==
    LET c == ch % numChannels
    IN  [a |-> [a EXCEPT !.Channels[c].Enabled = enabled,
                         !.Channels[c].Range = voltage,
                         !.Channels[c].Description = description],
         err |-> IF ch < 0 \/ ch >= numChannels
                 THEN "channel outside valid range" ELSE "nil"]

configureChannel(a, ch, enabled, voltage, description) ==
    IF ch < 0 \/ ch >= numChannels
    THEN [a |-> a, err |-> "channel outside valid range"]
    ELSE [a |-> [a EXCEPT !.Channels[ch].Enabled = enabled,
                          !.Channels[ch].Range = voltage,
                          !.Channels[ch].Description = description],
          err |-> "nil"]

ConfigureChannelEveryRange(a, ch, enabled, voltage, description) ==
    IF voltage \notin DOMAIN InputRanges
    THEN [a |-> a, err |-> "voltage input range is invalid"]
    ELSE LET r == configureChannel(a, ch, enabled, InputRanges[voltage],
                                   description)
         IN  IF r.err # "nil" THEN r
             ELSE [a |-> [r.a EXCEPT !.Channels =
                             [i \in DOMAIN r.a.Channels |->
                                 [r.a.Channels[i] EXCEPT
                                     !.Range = InputRanges[voltage]]]],
                   err |-> "nil"]

ConfigureChannel(a, ch, enabled, voltage, description) ==
    IF voltage \notin DOMAIN InputRanges
    THEN [a |-> a, err |-> "voltage input range is invalid"]
    ELSE configureChannel(a, ch, enabled, InputRanges[voltage], description)

ConfigureEnableChannel(a, ch, voltage, description) ==
    ConfigureChannel(a, ch, TRUE, voltage, description)


(***************************************************************************)
(* Sessions under configuration, and the conversion of what they read.     *)
(***************************************************************************)
\* The channels that are configured, from channel 0.
VoltChan == 2

RangeNames == {"10V", "5V", "3V"}

\* The data handed to the conversions, by their number of words; word k
\* of the data is SampleWord(k).
VoltWordCounts == {0, 2, 3, 8, 16}

SampleWord(k) == (k * 8191 + 65535) % 65536

VoltData(n) == [j \in 1..(bytesPerWord * n) |->
                   EncodeWord(SampleWord((j - 1) \div bytesPerWord))
                       [((j - 1) % bytesPerWord) + 1]]

\* The sessions start from a construction whose calibration reads all
\* succeeded, or all failed.
InitVolt ==
    /\ bench = TwoDaqs
    /\ ai = NewAnalogInput
    /\ dev = IdleDevice
    /\ wire = << >>
    /\ ret = Ret("NewAnalogInput", 0, "nil")
    /\ cal \in {Construct(image, [k \in 1..NumCalReads |-> ok]) :
                   image \in CalImages, ok \in BOOLEAN}
    /\ calc = NoCalc

CallConfigureChannel ==
    \E ch \in (0..(VoltChan - 1)) \cup {numChannels}, enabled \in BOOLEAN,
       voltage \in RangeNames :
        LET r == ConfigureChannel(ai, ch, enabled, voltage, "")
        IN  /\ ai' = r.a
            /\ ret' = Ret("ConfigureChannel", ch, r.err)
            /\ calc' = NoCalc
            /\ UNCHANGED << dev, wire, cal, bench >>

CallVoltages ==
    \E n \in VoltWordCounts :
        /\ calc' = [fn |-> "Voltages", in |-> VoltData(n),
                    out |-> Voltages(ai, ChannelGains(cal.table),
                                     VoltData(n))]
        /\ UNCHANGED << ai, dev, wire, ret, cal, bench >>

CallRawVoltages ==
    \E n \in VoltWordCounts :
        /\ calc' = [fn |-> "RawVoltages", in |-> VoltData(n),
                    out |-> RawVoltages(ai, VoltData(n))]
        /\ UNCHANGED << ai, dev, wire, ret, cal, bench >>

CallChannelVolts ==
    \E ch \in 0..(VoltChan - 1), n \in {1, 2} :
        /\ calc' = [fn |-> "Channel.Volts", in |-> VoltData(n), ch |-> ch,
                    out |-> ChannelVolts(ai, ChannelGains(cal.table), ch,
                                         VoltData(n))]
        /\ UNCHANGED << ai, dev, wire, ret, cal, bench >>

NextVolt ==
    \/ CallConfigureChannel
    \/ CallVoltages
    \/ CallRawVoltages
    \/ CallChannelVolts

SpecVolt == InitVolt /\ [][NextVolt]_vars

NumEnabled(a) ==
    Cardinality({i \in DOMAIN a.Channels : a.Channels[i].Enabled})

\* C12: Voltages and RawVoltages take the data as scans of one word for
\* each enabled channel: they fail when the length is not a multiple of
\* 2 x (enabled channels), and otherwise return one row for each enabled
\* channel, each of len(data) / (2 x enabled channels) samples.
C12_RowsPerEnabledChannel ==
    (calc.fn \in {"Voltages", "RawVoltages"} /\ NumEnabled(ai) > 0) =>
        LET scanBytes == bytesPerWord * NumEnabled(ai)
        IN  IF Len(calc.in) % scanBytes # 0
            THEN calc.out.err # "nil"
            ELSE /\ calc.out.err = "nil"
                 /\ Cardinality(DOMAIN calc.out.volts) = NumEnabled(ai)
                 /\ \A i \in DOMAIN calc.out.volts :
                        Len(calc.out.volts[i]) = Len(calc.in) \div scanBytes


\* The voltage of a word of channel i under the entries of the gain table
\* for the range the channel has now.
TableVolts(i, word) ==
    LET r == ai.Channels[i].Range
    IN  Volts(adjustRawValue(word, cal.table.Slope[r][i],
                             cal.table.Intercept[r][i]), r)

\* C13: whatever the configuration calls made so far, the slope and the
\* offset that Voltages and Channel.Volts apply to a word of channel i are
\* the entries slope[r][i] and offset[r][i] of the gain table built at
\* construction, r being the range channel i has at the call.
C13_GainsOfCurrentRange ==
    /\ (calc.fn = "Voltages" /\ calc.out.err = "nil") =>
           \A i \in DOMAIN calc.out.volts :
               \A scan \in DOMAIN calc.out.volts[i] :
                   calc.out.volts[i][scan] =
                       TableVolts(i, DecodeWord(WordAt(calc.in,
                                      (scan - 1) * numChannels + i)))
    /\ (calc.fn = "Channel.Volts" /\ calc.out.err = "nil") =>
           calc.out.v = TableVolts(calc.ch, DecodeWord(calc.in))

\* Voltages has converted a scan for a session whose channel 0 was moved to
\* the 5 V range, whose gains differ from those of its 10 V range.
C13_Witness ==
    /\ calc.fn = "Voltages"
    /\ calc.out.err = "nil"
    /\ Len(calc.in) > 0
    /\ ai.Channels[0].Range = 1
    /\ cal.table.Slope[1][0] # cal.table.Slope[0][0]
    /\ calc.out.volts[0][1] # Volts(adjustRawValue(DecodeWord(WordAt(calc.in, 0)),
                                  cal.table.Slope[0][0],
                                  cal.table.Intercept[0][0]), 1)


(***************************************************************************)
(* The functions of the package, evaluated on their own.                   *)
(***************************************************************************)
\* The words handed to the conversions: the ends and the middle of the
\* 16-bit range, and every WordStep-th word between.
WordStep == 257

Words ==
    {0, 1, 32767, 32768, 32769, 65534, 65535}
    \cup {k * WordStep : k \in 0..(65535 \div WordStep)}

RangeCodes == 0..(maxNumGainLevels - 1)

\* Slopes and offsets: those of the tests, and the neutral pair 1.0, 0.0.
Slopes == {Fx(1, 0), Fx(1, 150000), Fx(1, 154856), Fx(2, 0)}

Offsets == {Fx(0, 0), Fx(1, 0), Fx(-5000, 0), FxNeg(Fx(5152, 185547))}

Frequencies ==
    {-10000, -1, 0, 1, 3, 1024, 10000, 50000, 128000, 499999, 500000,
     500001, 1000000, 40000000}

ScanCounts == {0, 1, 256, 65538, 2147483647}

ByteChoices == {0, 1, 129, 255}

Fractions ==
    [num : {-7999, -15, -5, -4, 0, 4, 5, 12, 15, 499, 500, 7990, 7999},
     den : {10, 1000}]

MemAddresses == (-2..3) \cup (764..770)

MemCounts == (-1..3) \cup (765..770)

Evaluated(fn, in, out) == [fn |-> fn, in |-> in, out |-> out]

CallVoltsFromWord ==
    /\ calc = NoCalc
    /\ \E word \in Words, vr \in RangeCodes, slope \in Slopes,
           offset \in Offsets :
            /\ calc' = Evaluated("VoltsFromWord",
                           [data |-> EncodeWord(word), range |-> vr,
                            slope |-> slope, offset |-> offset],
                           VoltsFromWord(EncodeWord(word), vr, slope, offset))
            /\ UNCHANGED << ai, dev, wire, ret, cal, bench >>

CallRawVoltsFromWord ==
    /\ calc = NoCalc
    /\ \E word \in Words, vr \in RangeCodes :
            /\ calc' = Evaluated("RawVoltsFromWord",
                           [data |-> EncodeWord(word), range |-> vr],
                           RawVoltsFromWord(EncodeWord(word), vr))
            /\ UNCHANGED << ai, dev, wire, ret, cal, bench >>

CallPackScanData ==
    /\ calc = NoCalc
    /\ \E numScans \in ScanCounts, frequency \in Frequencies,
           channels \in ByteChoices, options \in ByteChoices :
            /\ calc' = Evaluated("packScanData",
                           [numScans |-> numScans, frequency |-> frequency,
                            channels |-> channels, options |-> options],
                           packScanData(numScans, frequency, channels, options))
            /\ UNCHANGED << ai, dev, wire, ret, cal, bench >>

CallCalculatePacerPeriod ==
    /\ calc = NoCalc
    /\ \E frequency \in Frequencies :
            /\ calc' = Evaluated("calculatePacerPeriod", frequency,
                                 calculatePacerPeriod(frequency))
            /\ UNCHANGED << ai, dev, wire, ret, cal, bench >>

CallRound ==
    /\ calc = NoCalc
    /\ \E f \in Fractions :
            /\ calc' = Evaluated("round", f, round(f.num, f.den))
            /\ UNCHANGED << ai, dev, wire, ret, cal, bench >>

CallValidCalMemoryRange ==
    /\ calc = NoCalc
    /\ \E address \in MemAddresses, count \in MemCounts :
            /\ calc' = Evaluated("validCalMemoryRange",
                           [address |-> address, count |-> count],
                           validCalMemoryRange(address, count))
            /\ UNCHANGED << ai, dev, wire, ret, cal, bench >>

\* The session with exactly the channels of `enabled` enabled.
WithEnabled(enabled) ==
    [NewAnalogInput EXCEPT !.Channels =
        [i \in 0..(numChannels - 1) |->
            [NewAnalogInput.Channels[i] EXCEPT !.Enabled = (i \in enabled)]]]

\* The settings the options byte is made of.
OptionSettings ==
    [TransferMode : {BlockTransfer, ImmediateTransfer},
     OutputPacerOnSync : BOOLEAN,
     Trigger : NoExternalTrigger..LowLevelTrigger,
     DebugMode : BOOLEAN,
     Stall : {StallOnOverrun, StallInhibited}]

WithSettings(s) ==
    [NewAnalogInput EXCEPT !.TransferMode = s.TransferMode,
                           !.OutputPacerOnSync = s.OutputPacerOnSync,
                           !.Trigger = s.Trigger,
                           !.DebugMode = s.DebugMode,
                           !.Stall = s.Stall]

CallEnabledChannels ==
    /\ calc = NoCalc
    /\ \E enabled \in SUBSET (0..(numChannels - 1)) :
            /\ calc' = Evaluated("EnabledChannels", enabled,
                           [mask |-> EnabledChannels(WithEnabled(enabled)),
                            num |-> NumEnabledChannels(WithEnabled(enabled))])
            /\ UNCHANGED << ai, dev, wire, ret, cal, bench >>

CallOptions ==
    /\ calc = NoCalc
    /\ \E s \in OptionSettings :
            /\ calc' = Evaluated("Options", s, Options(WithSettings(s)))
            /\ UNCHANGED << ai, dev, wire, ret, cal, bench >>

CallAdjustRawValue ==
    /\ calc = NoCalc
    /\ \E value \in Words \cup {10}, slope \in Slopes,
          offset \in Offsets \cup {Fx(-1, 0)} :
            /\ calc' = Evaluated("adjustRawValue",
                           [value |-> value, slope |-> slope,
                            offset |-> offset],
                           adjustRawValue(value, slope, offset))
            /\ UNCHANGED << ai, dev, wire, ret, cal, bench >>

\* The pacer-period bytes of the packet StartScan sends for a session with
\* the given UseExternalPacer and a Frequency of num / 2^exp Hz.
CallStartScanPacer ==
    /\ calc = NoCalc
    /\ \E external \in BOOLEAN,
          num \in {-1, 0, 10000, 128000, 500000, 500001, 40000000,
                   79999999},
          exp \in {0, 7, 33} :
            /\ calc' = Evaluated("StartScanPacer",
                           [UseExternalPacer |-> external, num |-> num,
                            exp |-> exp],
                           IF external THEN pacerPeriodField(0, 0)
                           ELSE pacerPeriodField(num, exp))
            /\ UNCHANGED << ai, dev, wire, ret, cal, bench >>

NextFn ==
    \/ CallVoltsFromWord
    \/ CallRawVoltsFromWord
    \/ CallPackScanData
    \/ CallCalculatePacerPeriod
    \/ CallRound
    \/ CallValidCalMemoryRange
    \/ CallEnabledChannels
    \/ CallOptions
    \/ CallStartScanPacer
    \/ CallAdjustRawValue

SpecFn == Init /\ [][NextFn]_vars


\* C14: the adjusted value VoltsFromWord converts lies in 0..65535, so the
\* voltage it returns for a range of multiplier m lies between
\* m x (0 - 32768) / 32768 and m x (65535 - 32768) / 32768.
C14_AdjustedValueInWordRange ==
    (calc.fn = "VoltsFromWord" /\ calc.out.err = "nil") =>
        LET m == Multiplier(calc.in.range)
        IN  /\ 0 - m * converter <= calc.out.v.num
            /\ calc.out.v.num <= m * (converter - 1)

\* C15: with slope 1.0 and offset 0.0, VoltsFromWord returns for every word
\* and every range code what RawVoltsFromWord returns.
C15_UnityGainIsRaw ==
    (/\ calc.fn = "VoltsFromWord"
     /\ calc.in.slope = Fx(1, 0)
     /\ calc.in.offset = Fx(0, 0)) =>
        calc.out = RawVoltsFromWord(calc.in.data, calc.in.range)

\* VoltsFromWord has converted the largest word under the neutral gains.
C15_Witness ==
    /\ calc.fn = "VoltsFromWord"
    /\ calc.in.slope = Fx(1, 0)
    /\ calc.in.offset = Fx(0, 0)
    /\ calc.in.data = << 255, 255 >>
    /\ calc.in.range = 1
    /\ calc.out.v.num = 5 * 32767

\* C16: RawVoltsFromWord is multiplier(r) x (w - 32768) / 32768: it does
\* not decrease as the word grows, it is 0 at word 32768, and it is -10.0
\* at word 0 and 9.99969482421875 (327670 / 32768) at word 65535 of the
\* 10 V range, and -5.0 at word 0 of the 5 V range.
C16_RawVoltsLinear ==
    calc.fn = "RawVoltsFromWord" =>
        LET w == calc.in.data[1] + 256 * calc.in.data[2]
            r == calc.in.range
            v == calc.out.v
        IN  /\ calc.out.err = "nil"
            /\ v.den = 32768
            /\ v.num = Multiplier(r) * (w - 32768)
            /\ w = 32768 => v.num = 0
            /\ \A w2 \in Words :
                   w <= w2 =>
                       v.num <= RawVoltsFromWord(EncodeWord(w2), r).v.num
            /\ (r = 0 /\ w = 0) => v.num = 0 - 10 * v.den
            /\ (r = 0 /\ w = 65535) => v.num = 327670
            /\ (r = 1 /\ w = 0) => v.num = 0 - 5 * v.den

\* RawVoltsFromWord has converted the largest word of the 10 V range.
C16_Witness ==
    /\ calc.fn = "RawVoltsFromWord"
    /\ calc.in.range = 0
    /\ calc.in.data = << 255, 255 >>
    /\ calc.out.v.num = 327670

\* The uint32 of four little-endian bytes, below 2^31.
LEUint32(b, from) ==
    b[from] + 256 * b[from + 1] + 65536 * b[from + 2]
        + 16777216 * b[from + 3]

\* C17: packScanData returns 10 bytes: numScans in bytes 0-3 and the pacer
\* period in bytes 4-7, both little-endian, the channel mask in byte 8 and
\* the options in byte 9; (1, 10000, 0x01, 0x00) gives
\* 01 00 00 00 9F 0F 00 00 01 00 and (256, 50000, 0xFF, 0xFF) gives
\* 00 01 00 00 1F 03 00 00 FF FF.
C17_PackScanData ==
    calc.fn = "packScanData" =>
        /\ Len(calc.out) = 10
        /\ \A k \in 1..10 : calc.out[k] \in 0..255
        /\ LEUint32(calc.out, 1) = calc.in.numScans
        /\ LEUint32(calc.out, 5) = calculatePacerPeriod(calc.in.frequency)
        /\ calc.out[9] = calc.in.channels
        /\ calc.out[10] = calc.in.options
        /\ calc.in = [numScans |-> 1, frequency |-> 10000, channels |-> 1,
                      options |-> 0]
               => calc.out = << 1, 0, 0, 0, 159, 15, 0, 0, 1, 0 >>
        /\ calc.in = [numScans |-> 256, frequency |-> 50000,
                      channels |-> 255, options |-> 255]
               => calc.out = << 0, 1, 0, 0, 31, 3, 0, 0, 255, 255 >>

\* packScanData has packed 256 scans at 50 kHz of all channels.
C17_Witness ==
    /\ calc.fn = "packScanData"
    /\ calc.in = [numScans |-> 256, frequency |-> 50000, channels |-> 255,
                  options |-> 255]
    /\ Len(calc.out) = 10

\* C18: for 0 < f <= 500000 calculatePacerPeriod(f) is 40000000/f - 1
\* rounded to the nearest integer, a half rounding away from zero: p with
\* p - 1/2 <= 40000000/f - 1 < p + 1/2.  10000 Hz gives 3999, 50000 Hz 799
\* and 40000000 Hz 79; round(0.499) = 0, round(1.2) = 1, round(799.9) = 800.
C18_PacerPeriod ==
    /\ calc.fn = "calculatePacerPeriod" =>
           LET f == calc.in
               p == calc.out
           IN  /\ (0 < f /\ f <= 500000) =>
                      /\ 2 * f * p - f <= 2 * (40000000 - f)
                      /\ 2 * (40000000 - f) < 2 * f * p + f
               /\ f = 10000 => p = 3999
               /\ f = 50000 => p = 799
               /\ f = 40000000 => p = 79
    /\ calc.fn = "round" =>
           /\ calc.in = [num |-> 499, den |-> 1000] => calc.out = 0
           /\ calc.in = [num |-> 12, den |-> 10] => calc.out = 1
           /\ calc.in = [num |-> 7999, den |-> 10] => calc.out = 800

\* calculatePacerPeriod has met a half: 40000000/128000 - 1 = 311.5.
C18_Witness ==
    /\ calc.fn = "calculatePacerPeriod"
    /\ calc.in = 128000
    /\ calc.out = 312

\* C19: every frequency above 500000 Hz gives the period of 500000 Hz, and
\* every frequency of 0 or less gives the period 0.
C19_PacerPeriodClamped ==
    calc.fn = "calculatePacerPeriod" =>
        /\ calc.in > 500000 => /\ calc.out = calculatePacerPeriod(500000)
                               /\ calc.out = 79
        /\ calc.in <= 0 => calc.out = 0

\* calculatePacerPeriod has been given 1 MHz.
C19_Witness ==
    /\ calc.fn = "calculatePacerPeriod"
    /\ calc.in = 1000000
    /\ calc.out = 79

\* C20: validCalMemoryRange(address, count) holds exactly when count > 0,
\* count <= 768, address >= 0 and address + count - 1 <= 0x2FF; (0, 1),
\* (0, 768), (1, 767) and (0x2FF, 1) are valid; (0, 0), (-1, 1), (0, 769),
\* (1, 768) and (0x2FF, 2) are not.
C20_ValidCalMemoryRange ==
    calc.fn = "validCalMemoryRange" =>
        LET address == calc.in.address
            count == calc.in.count
        IN  /\ calc.out <=> (/\ count > 0
                             /\ count <= 768
                             /\ address >= 0
                             /\ address + count - 1 <= 767)
            /\ << address, count >> \in
                   {<< 0, 1 >>, << 0, 768 >>, << 1, 767 >>, << 767, 1 >>}
                   => calc.out
            /\ << address, count >> \in
                   {<< 0, 0 >>, << -1, 1 >>, << 0, 769 >>, << 1, 768 >>,
                    << 767, 2 >>}
                   => ~calc.out

\* validCalMemoryRange has accepted the whole memory.
C20_Witness ==
    /\ calc.fn = "validCalMemoryRange"
    /\ calc.in = [address |-> 0, count |-> 768]
    /\ calc.out


(***************************************************************************)
(* The ranges of the channels: configuration, SetScanRanges, ScanRanges.   *)
(***************************************************************************)
\* A control transfer reports the bytes it moved: all of them, a part, or
\* none with an error.
ControlOutcomes(req) ==
    {[ok |-> TRUE, got |-> req], [ok |-> TRUE, got |-> req \div 2],
     [ok |-> FALSE, got |-> 0]}

\* USB1608fsplus.SendCommandToDevice with the count it returns.
SendCommandCounted(cmd, data, out) ==
    LET sent == IF data = << >> THEN << 0 >> ELSE data
    IN  [wire |-> << [CmdEntry(cmd, sent, out.ok) EXCEPT !.got = out.got] >>,
         n |-> out.got,
         err |-> IF out.ok THEN "nil" ELSE "transport"]

\* USB1608fsplus.ReadCommandFromDevice: the transfer fills the first `got`
\* bytes of the buffer with what the device holds for the command.
ReadCommandFromDevice(cmd, data, d, out) ==
    LET held == IF cmd = commandAnalogConfig THEN d.ranges
                ELSE MakeBytes(Len(data))
        read == [i \in 1..Len(data) |->
                    IF out.ok /\ i <= out.got /\ i <= Len(held)
                    THEN held[i] ELSE data[i]]
    IN  [wire |-> << [op |-> "readcmd", cmd |-> cmd, data |-> read,
                      req |-> Len(data), got |-> out.got, ok |-> out.ok] >>,
         n |-> out.got,
         data |-> read,
         err |-> IF out.ok THEN "nil" ELSE "transport"]

SetScanRangesReversed(a, out) ==
    LET ranges == [i \in 1..8 |-> a.Channels[8 - i].Range]
        r == SendCommandCounted(commandAnalogConfig, ranges, out)
    IN  [wire |-> r.wire,
         err |-> IF r.err # "nil" THEN "Error writing Ain config" ELSE "nil"]

SetScanRanges(a, out) ==
    LET ranges == [i \in 1..8 |-> a.Channels[i - 1].Range]
        r == SendCommandCounted(commandAnalogConfig, ranges, out)
    IN  IF Len(ranges) # 8
        THEN [wire |-> << >>,
              err |-> "length of ranges slice is not 8 bytes"]
        ELSE [wire |-> r.wire,
              err |-> IF r.err # "nil" THEN "Error writing Ain config"
                      ELSE "nil"]

ScanRangesIgnoresCount(d, out) ==
    LET r == ReadCommandFromDevice(commandAnalogConfig, MakeBytes(8), d, out)
    IN  [wire |-> r.wire, ranges |-> r.data, n |-> r.n,
         err |-> IF r.err # "nil" THEN "Error reading Ain config" ELSE "nil"]

ScanRanges(d, out) ==
    LET bytesInRange == 8
        r == ReadCommandFromDevice(commandAnalogConfig,
                                   MakeBytes(bytesInRange), d, out)
    IN  [wire |-> r.wire, ranges |-> r.data, n |-> r.n,
         err |-> IF r.err # "nil" THEN "Error reading Ain config"
                 ELSE IF r.n # bytesInRange THEN "Wrong number of ranges"
                 ELSE "nil"]

\* The channels configured: the first and the last, and the two indexes
\* next to them that are no channel.
CallConfigure ==
    \E ch \in {-1, 0, numChannels - 1, numChannels}, enabled \in BOOLEAN,
       voltage \in {"10V", "5V", "1V", "3V"}, description \in {"", "probe"} :
        LET r == ConfigureChannel(ai, ch, enabled, voltage, description)
        IN  /\ ai' = r.a
            /\ wire' = << >>
            /\ ret' = Ret("ConfigureChannel",
                          [ch |-> ch, voltage |-> voltage], r.err)
            /\ UNCHANGED << dev, cal, calc, bench >>

CallSetScanRanges ==
    \E out \in ControlOutcomes(8) :
        LET r == SetScanRanges(ai, out)
        IN  /\ wire' = r.wire
            /\ dev' = DevAfter(dev, r.wire)
            /\ ret' = Ret("SetScanRanges", 0, r.err)
            /\ UNCHANGED << ai, cal, calc, bench >>

CallScanRanges ==
    \E out \in ControlOutcomes(8) :
        LET r == ScanRanges(dev, out)
        IN  /\ wire' = r.wire
            /\ dev' = DevAfter(dev, r.wire)
            /\ ret' = [Ret("ScanRanges", 0, r.err) EXCEPT
                          !.n = r.n, !.data = r.ranges]
            /\ UNCHANGED << ai, cal, calc, bench >>

CallConfigureEnable ==
    \E ch \in {-1, 0}, voltage \in {"2V"}, description \in {"probe"} :
        LET r == ConfigureEnableChannel(ai, ch, voltage, description)
        IN  /\ ai' = r.a
            /\ wire' = << >>
            /\ ret' = Ret("ConfigureEnableChannel",
                          [ch |-> ch, voltage |-> voltage], r.err)
            /\ UNCHANGED << dev, cal, calc, bench >>

NextConfig ==
    \/ CallConfigure
    \/ CallConfigureEnable
    \/ CallEnableChannel
    \/ CallDisableChannel
    \/ CallSetScanRanges
    \/ CallScanRanges

SpecConfig == Init /\ [][NextConfig]_vars


\* C21: a ConfigureChannel whose index is outside 0..7 or whose range name
\* is none of "10V", "5V", "2V", "1V" returns an error, leaves the session
\* as it was and issues no transfer.
C21_ConfigureRejects ==
    [][(/\ ret'.op = "ConfigureChannel"
        /\ \/ ret'.arg.ch \notin 0..7
           \/ ret'.arg.voltage \notin {"10V", "5V", "2V", "1V"})
       => (/\ ret'.err # "nil"
           /\ ai' = ai
           /\ wire' = << >>
           /\ dev' = dev)]_vars

\* A ConfigureChannel was rejected on a session whose first channel had
\* been enabled, described and moved off its default range.
C21_Witness ==
    /\ ret.op = "ConfigureChannel"
    /\ ret.err # "nil"
    /\ ret.arg.ch = numChannels
    /\ ai.Channels[0] = [Enabled |-> TRUE, Range |-> 1,
                         Description |-> "probe"]

\* C22: a ConfigureChannel that succeeds on channel i leaves every other
\* channel and every other setting of the session as they were and issues
\* no transfer; the ranges the device holds change only in a SetScanRanges.
C22_ConfigureFrame ==
    [][/\ (ret'.op = "ConfigureChannel" /\ ret'.err = "nil") =>
              /\ \A j \in DOMAIN ai.Channels :
                     j # ret'.arg.ch => ai'.Channels[j] = ai.Channels[j]
              /\ [ai' EXCEPT !.Channels = ai.Channels] = ai
              /\ wire' = << >>
              /\ dev' = dev
       /\ dev'.ranges # dev.ranges => ret'.op = "SetScanRanges"]_vars

\* The last channel was configured while the first was off its default
\* range, and the device still holds other ranges than the session.
C22_Witness ==
    /\ ret.op = "ConfigureChannel"
    /\ ret.err = "nil"
    /\ ret.arg.ch = numChannels - 1
    /\ ai.Channels[0].Range = 1
    /\ ai.Channels[numChannels - 1].Range = 5
    /\ dev.ranges[numChannels] # 5

\* C23: SetScanRanges issues one AnalogConfig command of 8 bytes, byte i
\* the range code of channel i; the device keeps a packet received whole,
\* and a ScanRanges that succeeds returns the 8 codes the device holds.
C23_RangesPacket ==
    /\ ret.op = "SetScanRanges" =>
           /\ Len(wire) = 1
           /\ wire[1].op = "cmd"
           /\ wire[1].cmd = commandAnalogConfig
           /\ Len(wire[1].data) = 8
           /\ \A i \in 0..7 : wire[1].data[i + 1] = ai.Channels[i].Range
           /\ (wire[1].ok /\ wire[1].got = 8) =>
                  dev.ranges = wire[1].data
    /\ (ret.op = "ScanRanges" /\ ret.err = "nil") =>
           /\ Len(ret.data) = 8
           /\ ret.data = dev.ranges

\* ScanRanges has read back the packet of a session whose first channel is
\* on 5 V and whose last is on 1 V.
C23_Witness ==
    /\ ret.op = "ScanRanges"
    /\ ret.err = "nil"
    /\ ret.data = << 1, 0, 0, 0, 0, 0, 0, 5 >>
    /\ \A i \in 0..7 : ai.Channels[i].Range = ret.data[i + 1]

\* C24: SetScanRanges returns an error when the transfer fails and when
\* the transfer reports another length than the 8 bytes sent.
C24_SetScanRangesErrors ==
    ret.op = "SetScanRanges" =>
        ((~wire[1].ok \/ wire[1].got # 8) => ret.err # "nil")

\* C25: ScanRanges returns an error when the transfer fails or reports
\* another count than 8, and returns 8 bytes and no error exactly when 8
\* bytes were read.
C25_ScanRangesErrors ==
    ret.op = "ScanRanges" =>
        /\ (ret.err # "nil") <=> (~wire[1].ok \/ wire[1].got # 8)
        /\ ret.err = "nil" => (Len(ret.data) = 8 /\ ret.n = 8)

\* ScanRanges was answered with 4 bytes and no transport error.
C25_Witness ==
    /\ ret.op = "ScanRanges"
    /\ wire[1].ok
    /\ wire[1].got = 4
    /\ ret.err = "Wrong number of ranges"


\* Bit i of the byte b.
BitOf(b, i) == (b \div (2 ^ i)) % 2

\* C26: for each of the 256 combinations of enabled channels, bit i of
\* EnabledChannels is set exactly when channel i is enabled, and
\* NumEnabledChannels is the number of bits set.
C26_EnabledMask ==
    calc.fn = "EnabledChannels" =>
        /\ calc.out.mask \in 0..255
        /\ \A i \in 0..7 : (BitOf(calc.out.mask, i) = 1) <=> (i \in calc.in)
        /\ calc.out.num = Cardinality(calc.in)
        /\ calc.out.num =
               Cardinality({i \in 0..7 : BitOf(calc.out.mask, i) = 1})

\* Channels 0, 1 and 6 are enabled: the mask is 0x43 and the count 3.
C26_Witness ==
    /\ calc.fn = "EnabledChannels"
    /\ calc.in = {0, 1, 6}
    /\ calc.out = [mask |-> 67, num |-> 3]

\* C27: for every setting with a trigger code of 0..4, bit 0 of the options
\* byte is the immediate transfer mode, bit 1 OutputPacerOnSync, bits 2-4 the
\* trigger code, bit 5 DebugMode, bit 7 the inhibited stall and bit 6 is 0;
\* no two settings give the same byte.
C27_OptionsByte ==
    calc.fn = "Options" =>
        /\ calc.out \in 0..255
        /\ (BitOf(calc.out, 0) = 1) <=>
               (calc.in.TransferMode = ImmediateTransfer)
        /\ (BitOf(calc.out, 1) = 1) <=> calc.in.OutputPacerOnSync
        /\ (calc.out \div 4) % 8 = calc.in.Trigger
        /\ (BitOf(calc.out, 5) = 1) <=> calc.in.DebugMode
        /\ BitOf(calc.out, 6) = 0
        /\ (BitOf(calc.out, 7) = 1) <=> (calc.in.Stall = StallInhibited)
        /\ \A s \in OptionSettings :
               Options(WithSettings(s)) = calc.out => s = calc.in

\* Immediate mode, pacer on sync, low-level trigger, debug mode and the
\* inhibited stall give 0xB3.
C27_Witness ==
    /\ calc.fn = "Options"
    /\ calc.in = [TransferMode |-> ImmediateTransfer,
                  OutputPacerOnSync |-> TRUE,
                  Trigger |-> LowLevelTrigger,
                  DebugMode |-> TRUE,
                  Stall |-> StallInhibited]
    /\ calc.out = 179


\* C28: StopScan and ClearScanBuffer each issue exactly one control
\* transfer, the AnalogStopScan command and the AnalogClearBuffer command,
\* return an error exactly when that transfer fails, and leave the session
\* as it was, whatever the state they are called in.
C28_StopAndClear ==
    [][ret'.op \in {"StopScan", "ClearScanBuffer"} =>
           /\ Len(wire') = 1
           /\ wire'[1].op = "cmd"
           /\ wire'[1].cmd = (IF ret'.op = "StopScan"
                              THEN commandAnalogStopScan
                              ELSE commandAnalogClearBuffer)
           /\ (ret'.err # "nil") <=> ~wire'[1].ok
           /\ ai' = ai]_vars

\* A StopScan failed while a scan was running on a session in immediate
\* mode with channel 0 enabled.
C28_Witness ==
    /\ ret.op = "StopScan"
    /\ ret.err # "nil"
    /\ dev.running
    /\ ai.TransferMode = ImmediateTransfer
    /\ ai.Channels[0].Enabled


\* C30: Read drops no failure of the hardware: when a transfer it issued
\* failed (the drain read, or the StopScan or ClearScanBuffer command of
\* the recovery from an overrun), Read returns an error or has logged
\* more than the notice of the overrun.
C30_NoErrorDropped ==
    ret.op = "Read" =>
        \A k \in DOMAIN wire :
            ~wire[k].ok =>
                \/ ret.err # "nil"
                \/ \E m \in DOMAIN ret.log : ret.log[m] # OverrunNotice


(***************************************************************************)
(* Two sessions on two devices.  A session holds a reference to its        *)
(* device (DAQ) and, for each channel, references to the two maps its      *)
(* construction allocated (Slopes, Intercepts); every call goes to the     *)
(* device the session refers to.                                           *)
(***************************************************************************)
\* The construction on each handle, each with a calibration memory of its
\* own, every calibration read succeeding.
Constructions ==
    [h \in Handles |->
        Construct(IF h = 1 THEN "unity" ELSE "factory",
                  [k \in 1..NumCalReads |-> TRUE])]

MakeMapStatic(maps, k) == k

\* make(map[VoltageRange]float64): the address of the k-th map a
\* construction allocates, past every map allocated so far.
MakeMap(maps, k) == Len(maps) + k

\* The transfers w of a call of session s arrive at the device the session
\* refers to.
Deliver(b, s, w) ==
    LET h == b.ais[s].DAQ
    IN  [b EXCEPT !.daqs[h] = DevAfter(@, w),
                  !.inbox = [x \in Handles |-> IF x = h THEN w ELSE << >>]]

\* daq.NewAnalogInput() for session s on the device of handle h.
NewAnalogInputOn(b, s, h) ==
    LET c == Constructions[h]
        slopes == [i \in 0..(numChannels - 1) |-> MakeMap(b.maps, 2 * i + 1)]
        intercepts ==
            [i \in 0..(numChannels - 1) |-> MakeMap(b.maps, 2 * i + 2)]
        top == IF Len(b.maps) > MakeMap(b.maps, 2 * numChannels)
               THEN Len(b.maps) ELSE MakeMap(b.maps, 2 * numChannels)
        written(m) ==
            IF \E i \in 0..(numChannels - 1) : slopes[i] = m
            THEN LET i == CHOOSE i \in 0..(numChannels - 1) : slopes[i] = m
                 IN  [rng \in 0..(maxNumGainLevels - 1) |->
                         c.table.Slope[rng][i]]
            ELSE IF \E i \in 0..(numChannels - 1) : intercepts[i] = m
            THEN LET i == CHOOSE i \in 0..(numChannels - 1) :
                              intercepts[i] = m
                 IN  [rng \in 0..(maxNumGainLevels - 1) |->
                         c.table.Intercept[rng][i]]
            ELSE b.maps[m]
        made == [b EXCEPT !.maps = [m \in 1..top |-> written(m)],
                          !.ais[s] = [DAQ |-> h, a |-> NewAnalogInput,
                                      Slopes |-> slopes,
                                      Intercepts |-> intercepts]]
    IN  [b |-> Deliver(made, s, c.wire), err |-> c.err]

\* The transfers of a call on the bench all succeed or all fail.
AllTransfers(ok) ==
    [stopOk |-> ok, clearOk |-> ok, startOk |-> ok, statusOk |-> ok,
     drain |-> [ok |-> ok, got |-> 0],
     failAt |-> IF ok THEN 0 ELSE 1, out |-> [ok |-> ok, got |-> 0]]

TwoNewAnalogInput ==
    \E s \in Sessions :
        /\ bench.ais[s] = NoSession
        /\ LET r == NewAnalogInputOn(bench, s, s)
           IN  /\ bench' = r.b
               /\ ret' = Ret("NewAnalogInput", [session |-> s], r.err)
               /\ UNCHANGED << ai, dev, wire, cal, calc >>

TwoConfigureChannel ==
    \E s \in Sessions :
        /\ bench.ais[s] # NoSession
        /\ \E enabled \in BOOLEAN, voltage \in {"10V", "5V"} :
               LET r == ConfigureChannel(bench.ais[s].a, 0, enabled,
                                         voltage, "")
               IN  /\ bench' = [Deliver(bench, s, << >>) EXCEPT
                                   !.ais[s].a = r.a]
                   /\ ret' = Ret("ConfigureChannel", [session |-> s], r.err)
                   /\ UNCHANGED << ai, dev, wire, cal, calc >>

TwoStartScan ==
    \E s \in Sessions :
        /\ bench.ais[s] # NoSession
        /\ \E numScans \in {0, 1}, ok \in BOOLEAN :
               LET r == StartScan(bench.ais[s].a, numScans, AllTransfers(ok))
               IN  /\ bench' = Deliver(bench, s, r.wire)
                   /\ ret' = Ret("StartScan", [session |-> s], r.err)
                   /\ UNCHANGED << ai, dev, wire, cal, calc >>

TwoRead ==
    \E s \in Sessions :
        /\ bench.ais[s] # NoSession
        /\ \E plen \in PLens, ok \in BOOLEAN :
               LET o == AllTransfers(ok)
                   phase == DataPhase(bench.ais[s].a, plen, o)
                   r == Read(bench.daqs[bench.ais[s].DAQ], MakeBytes(plen),
                             phase, o)
               IN  /\ bench' = Deliver(bench, s, r.wire)
                   /\ ret' = [Ret("Read", [session |-> s], r.err)
                                 EXCEPT !.n = r.n]
                   /\ UNCHANGED << ai, dev, wire, cal, calc >>

TwoStopScan ==
    \E s \in Sessions :
        /\ bench.ais[s] # NoSession
        /\ \E ok \in BOOLEAN :
               LET r == StopScan(ok)
               IN  /\ bench' = Deliver(bench, s, r.wire)
                   /\ ret' = Ret("StopScan", [session |-> s], r.err)
                   /\ UNCHANGED << ai, dev, wire, cal, calc >>

TwoClose ==
    \E s \in Sessions :
        /\ bench.ais[s] # NoSession
        /\ \E ok \in BOOLEAN :
               LET r == Close(ok)
               IN  /\ bench' = Deliver(bench, s, r.wire)
                   /\ ret' = Ret("Close", [session |-> s], r.err)
                   /\ UNCHANGED << ai, dev, wire, cal, calc >>

NextTwo ==
    \/ TwoNewAnalogInput
    \/ TwoConfigureChannel
    \/ TwoStartScan
    \/ TwoRead
    \/ TwoStopScan
    \/ TwoClose

SpecTwo == Init /\ [][NextTwo]_vars

\* What belongs to session t on the bench b: the session with its channels
\* and settings, the gain values its channels refer to, and its device.
Side(b, t) ==
    [session |-> b.ais[t],
     gains |-> IF b.ais[t] = NoSession THEN << >>
               ELSE [i \in 0..(numChannels - 1) |->
                        [Slopes |-> b.maps[b.ais[t].Slopes[i]],
                         Intercepts |-> b.maps[b.ais[t].Intercepts[i]]]],
     device |-> b.daqs[t]]

\* C29: two sessions on different devices share no state: a call on one
\* session leaves the channels, the settings and the gain values of the
\* other session and the other device as they were, and issues no transfer
\* to the other device.
C29_NoSharedState ==
    [][\A t \in Sessions :
           t # ret'.arg.session =>
               /\ Side(bench', t) = Side(bench, t)
               /\ bench'.inbox[t] = << >>]_vars

\* Session 1 has read from its running scan while session 2, made on the
\* other device with other gain values and configured otherwise, is idle.
C29_Witness ==
    /\ ret.op = "Read"
    /\ ret.arg.session = 1
    /\ ret.err = "nil"
    /\ bench.ais[2] # NoSession
    /\ bench.daqs[1].running
    /\ ~bench.daqs[2].running
    /\ bench.inbox[1] # << >>
    /\ bench.ais[1].a.Channels[0].Enabled
    /\ bench.ais[2].a.Channels[0].Range = 1
    /\ Side(bench, 1).gains # Side(bench, 2).gains


\* C31: in a Read whose data phase succeeds the transfers come in this
\* order: the bulk reads of the data, then exactly one status query, then
\* the drain read if there is one, then the stop and the clear of the
\* recovery if there is one; the status is queried only after all the data
\* has arrived.
C31_ReadOrder ==
    ret.op = "Read" =>
        LET data == DataPart(wire)
            after == AfterPart(wire)
            complete == /\ ValidLen(ret.arg)
                        /\ \A i \in 1..Len(data) :
                               IsBulkEntry(data[i]) /\ data[i].ok
                        /\ Len(Delivered(data)) = ret.arg
            isDrain(e) == IsBulkEntry(e) /\ e.req = bytesPerWord
            recovery(w) ==
                /\ Len(w) = 2
                /\ IsCmd(w[1], commandAnalogStopScan)
                /\ IsCmd(w[2], commandAnalogClearBuffer)
        IN  /\ Cardinality({i \in 1..Len(wire) : wire[i].op = "status"})
                   = (IF complete THEN 1 ELSE 0)
            /\ StatusIdx(wire) > 0 =>
                   \/ after = << >>
                   \/ Len(after) = 1 /\ isDrain(after[1])
                   \/ recovery(after)
                   \/ /\ Len(after) = 3
                      /\ isDrain(after[1])
                      /\ recovery(SubSeq(after, 2, 3))

\* A Read got its data, found the scan finished and overrun, drained the
\* zero-length packet and recovered.
C31_Witness ==
    /\ ret.op = "Read"
    /\ ret.arg > 0
    /\ StatusIdx(wire) > 1
    /\ Len(AfterPart(wire)) = 3
    /\ IsBulkEntry(AfterPart(wire)[1])
    /\ IsCmd(wire[Len(wire)], commandAnalogClearBuffer)


\* C32: over the calls of one session, against a device that stops its
\* scan when it accepts a stop command, no AnalogStartScan command reaches
\* the device while its scan is running.
C32_NoStartWhileRunning ==
    [][dev' = DevAfter(dev, wire') =>
           \A i \in 1..Len(wire') :
               (IsCmd(wire'[i], commandAnalogStartScan) /\ wire'[i].ok) =>
                   ~DevAfter(dev, SubSeq(wire', 1, i - 1)).running]_vars

\* A scan of 256 scans was started on a session in immediate mode, after
\* the calls that put it there.
C32_Witness ==
    /\ ret.op = "StartScan"
    /\ ret.arg = 256
    /\ ret.err = "nil"
    /\ ai.TransferMode = ImmediateTransfer
    /\ IsCmd(wire[Len(wire)], commandAnalogStartScan)
    /\ dev.running
    /\ ~dev.continuous


\* C33: a Read that fails in its data phase (a transfer error, a short
\* block read or an incomplete word) while a scan is running stops the
\* scan: a stop command has been issued and the device no longer scans
\* when Read returns the error.
C33_FailedReadStops ==
    [][(/\ ret'.op = "Read"
        /\ ValidLen(ret'.arg)
        /\ StatusIdx(wire') = 0
        /\ ret'.err # "nil"
        /\ dev.running
        /\ dev' = DevAfter(dev, wire'))
       => (/\ \E i \in 1..Len(wire') :
                  IsCmd(wire'[i], commandAnalogStopScan)
           /\ ~dev'.running)]_vars


\* C34: when the status query of a Read fails, Read returns an error and
\* issues neither the drain read nor the stop and clear of the recovery.
C34_FailedStatus ==
    (/\ ret.op = "Read"
     /\ StatusIdx(wire) > 0
     /\ ~wire[StatusIdx(wire)].ok)
    => (ret.err # "nil" /\ AfterPart(wire) = << >>)


\* C35: in immediate mode the k-th word received is stored at the bytes 2k
\* and 2k + 1 of the scan data: after a successful data phase the scan data
\* are the bytes received, in the order they were received.
C35_ImmediateWordsInPlace ==
    (/\ ret.op = "Read"
     /\ ai.TransferMode = ImmediateTransfer
     /\ StatusIdx(wire) > 0)
    => LET words == DataPart(wire)
       IN  \A k \in 0..(Len(words) - 1) :
               /\ ret.data[2 * k + 1] = words[k + 1].data[1]
               /\ ret.data[2 * k + 2] = words[k + 1].data[2]


\* C36: the pacer-period field of the packet StartScan sends is 0 exactly
\* when UseExternalPacer is set or the frequency is 0 or less, and for
\* every positive frequency with internal pacing the 32-bit period is 79 or
\* more.
C36_PacerFieldZero ==
    calc.fn = "StartScanPacer" =>
        LET external == calc.in.UseExternalPacer \/ calc.in.num <= 0
            field == calc.out
        IN  /\ (field = << 0, 0, 0, 0 >>) <=> external
            /\ ~external =>
                   \/ field[1] >= 79
                   \/ field[2] > 0
                   \/ field[3] > 0
                   \/ field[4] > 0


\* C37: ReadCalMemory called with an address and a count that
\* validCalMemoryRange rejects, a count of 0 or less and an address below 0
\* included, returns the range error and performs no control transfer.
C37_InvalidReadFailsFast ==
    (cal.op = "ReadCalMemory" /\ ~validCalMemoryRange(cal.address, cal.count))
        => /\ cal.err =
               "Tyring to access outside calibration memory range 0x0000 to 0x02FF"
           /\ cal.wire = << >>


\* The float64 that the calibration read at the given address has
\* delivered: the four bytes of the memory at that address when the
\* transfer succeeded, the zeroes of the buffer when it failed.
ReadAt(image, w, address) ==
    LET e == CHOOSE x \in {w[k] : k \in 1..Len(w)} : x.address = address
    IN  Float64(convertBytesToFloat32(
            [k \in 1..4 |-> IF e.ok THEN CalByte(image, address + k - 1)
                            ELSE 0]))

\* C38: BuildGainTable issues exactly 128 calibration reads of four bytes,
\* at the strictly increasing addresses 0, 4, ..., 508; the slope of gain
\* level g and channel c is the value read at 8 (8 g + c) and the offset
\* the value read at 8 (8 g + c) + 4; every request is a valid range.
C38_GainTableReads ==
    cal.op = "NewAnalogInput" =>
        /\ Len(cal.wire) = 128
        /\ \A k \in 1..Len(cal.wire) :
               /\ cal.wire[k].op = "cal"
               /\ cal.wire[k].address = 4 * (k - 1)
               /\ cal.wire[k].count = 4
               /\ validCalMemoryRange(cal.wire[k].address, cal.wire[k].count)
               /\ k > 1 => cal.wire[k - 1].address < cal.wire[k].address
        /\ \E image \in CalImages :
               \A g \in 0..7, c \in 0..7 :
                   /\ cal.table.Slope[g][c] =
                          ReadAt(image, cal.wire, 8 * (8 * g + c))
                   /\ cal.table.Intercept[g][c] =
                          ReadAt(image, cal.wire, 8 * (8 * g + c) + 4)

\* A construction has read the whole factory image: the last read is at
\* 508 and the slopes of the first and the last cell differ.
C38_Witness ==
    /\ cal.op = "NewAnalogInput"
    /\ \A k \in 1..Len(cal.wire) : cal.wire[k].ok
    /\ cal.wire[Len(cal.wire)].address = 508
    /\ cal.table.Slope[7][7] # cal.table.Slope[0][0]
    /\ cal.table.Intercept[7][7] # cal.table.Intercept[0][0]


\* C39: after any sequence of ConfigureChannel, ConfigureEnableChannel,
\* EnableChannel and DisableChannel calls on a session that NewAnalogInput
\* created, the range code of every channel is a key of VoltageMultiplier.
C39_RangeHasMultiplier ==
    \A i \in DOMAIN ai.Channels :
        ai.Channels[i].Range \in DOMAIN VoltageMultiplier

\* A channel that ConfigureEnableChannel had put on the 2 V range has been
\* disabled, while the last channel was configured to another range.
C39_Witness ==
    /\ ret.op = "DisableChannel"
    /\ ret.err = "nil"
    /\ ai.Channels[0] = [Enabled |-> FALSE, Range |-> 3,
                         Description |-> "probe"]
    /\ ai.Channels[numChannels - 1].Range = 1


\* value x slope + offset, exactly, as floor and millionths; the product is
\* taken by the high and the low byte of the value.
ExactProductSum(value, slope, offset) ==
    LET h == value \div 256
        l == value % 256
        a == h * slope.micro
        t == 256 * (a % 1000000) + l * slope.micro + offset.micro
    IN  [floor |-> value * slope.int + offset.int + 256 * (a \div 1000000)
                       + t \div 1000000,
         micro |-> t % 1000000]

====
